---------------------------- MODULE Spec2Model ----------------------------
(***************************************************************************)
(* TruckTalk Connect: header mapping, sheet validation, issue grouping and *)
(* date normalisation, modelled from the Apps Script sources.              *)
(*                                                                         *)
(* A JavaScript string is a TLA+ string.  Where the code looks inside a    *)
(* string (toLowerCase, trim, includes, a regular expression, Date         *)
(* parsing) the model works on the sequence of its characters.             *)
(***************************************************************************)
EXTENDS Integers, Sequences, FiniteSets, TLC

VARIABLES
    headers,    \* row 1 of the active sheet: a sequence of header strings
    rows,       \* the data rows (sheet rows 2..): sequences of cell strings
    tz,         \* script time zone: hours east of UTC used by Date for local time
    op,         \* the last operation performed, with its arguments
    result,     \* the value the last operation returned
    chatState,  \* the user property 'chatState' of part_009: <<>> when it is not set
    cache,      \* the cache Map of the proxy (part_001): cache key -> text
    inflight,   \* the proxy's requests that are awaiting the upstream reply
    log         \* what has happened so far (commands received, upstream calls)

\* the state outside the sheet: the saved chat state and the proxy
session == <<chatState, cache, inflight, log>>

vars == <<headers, rows, tz, op, result, session>>

\* nothing saved, nothing cached, no request under way
NoSession == chatState = <<>> /\ cache = <<>> /\ inflight = {} /\ log = <<>>

(***************************************************************************)
(* Characters.                                                             *)
(***************************************************************************)
Uppers == <<"A","B","C","D","E","F","G","H","I","J","K","L","M",
            "N","O","P","Q","R","S","T","U","V","W","X","Y","Z">>
Lowers == <<"a","b","c","d","e","f","g","h","i","j","k","l","m",
            "n","o","p","q","r","s","t","u","v","w","x","y","z">>
Digits == <<"0","1","2","3","4","5","6","7","8","9">>

IsUpper(c) == \E i \in 1..Len(Uppers) : Uppers[i] = c
IsDigit(c) == \E i \in 1..Len(Digits) : Digits[i] = c
IsSpace(c) == c = " "

\* String.prototype.toLowerCase on one character
LowerChar(c) ==
    IF IsUpper(c) THEN Lowers[CHOOSE i \in 1..Len(Uppers) : Uppers[i] = c] ELSE c

\* String.prototype.toLowerCase
toLowerCase(cs) == [i \in 1..Len(cs) |-> LowerChar(cs[i])]

\* String.prototype.trim
trim(cs) ==
    IF \A i \in 1..Len(cs) : IsSpace(cs[i]) THEN <<>>
    ELSE LET first == CHOOSE i \in 1..Len(cs) :
                          ~IsSpace(cs[i]) /\ \A j \in 1..(i-1) : IsSpace(cs[j])
             last  == CHOOSE i \in 1..Len(cs) :
                          ~IsSpace(cs[i]) /\ \A j \in (i+1)..Len(cs) : IsSpace(cs[j])
         IN  SubSeq(cs, first, last)

\* String.prototype.includes for a one-character needle
includes(cs, c) == \E i \in 1..Len(cs) : cs[i] = c

DigitVal(c) == (CHOOSE i \in 1..Len(Digits) : Digits[i] = c) - 1
TwoDigits(n) == <<Digits[(n \div 10) + 1], Digits[(n % 10) + 1]>>
AllDigits(cs, from, to) == \A i \in from..to : IsDigit(cs[i])
Num2(cs, at) == 10 * DigitVal(cs[at]) + DigitVal(cs[at + 1])


(***************************************************************************)
(* JavaScript values handed to normalizeDateTime: a string (the sequence   *)
(* of its characters), a number, null or undefined.                        *)
(***************************************************************************)
JsStr(cs)   == [t |-> "string",    s |-> cs,   n |-> 0]
JsNum(k)    == [t |-> "number",    s |-> <<>>, n |-> k]
JsNull      == [t |-> "null",      s |-> <<>>, n |-> 0]
JsUndefined == [t |-> "undefined", s |-> <<>>, n |-> 0]

\* !v : null, undefined, "" and 0 are falsy
Falsy(v) ==
    \/ v.t \in {"null", "undefined"}
    \/ v.t = "string" /\ v.s = <<>>
    \/ v.t = "number" /\ v.n = 0

(***************************************************************************)
(* Date.  An instant is a number of seconds since 2025-09-01T00:00:00Z;    *)
(* the model covers September 2025, where no zone changes its offset.      *)
(* NaN is the invalid Date.                                                *)
(***************************************************************************)
NaN == [valid |-> FALSE, t |-> 0]
DateAt(secs) == [valid |-> TRUE, t |-> secs]

MonthText == <<"2","0","2","5","-","0","9","-">>

\* "2025-09-DD" at position `at`
IsDateText(cs, at) ==
    /\ Len(cs) >= at + 9
    /\ SubSeq(cs, at, at + 7) = MonthText
    /\ AllDigits(cs, at + 8, at + 9)
    /\ Num2(cs, at + 8) \in 1..30

\* "HH:MM:SS" at position `at`
IsTimeText(cs, at) ==
    /\ Len(cs) >= at + 7
    /\ AllDigits(cs, at, at + 1) /\ cs[at + 2] = ":"
    /\ AllDigits(cs, at + 3, at + 4) /\ cs[at + 5] = ":"
    /\ AllDigits(cs, at + 6, at + 7)
    /\ Num2(cs, at) \in 0..23 /\ Num2(cs, at + 3) \in 0..59 /\ Num2(cs, at + 6) \in 0..59

\* "+HH:MM" or "-HH:MM"
IsOffsetText(cs) ==
    /\ Len(cs) = 6
    /\ cs[1] \in {"+", "-"}
    /\ AllDigits(cs, 2, 3) /\ cs[4] = ":" /\ AllDigits(cs, 5, 6)

OffsetSeconds(cs) ==
    (IF cs[1] = "-" THEN -1 ELSE 1) * (Num2(cs, 2) * 3600 + Num2(cs, 5) * 60)

\* the zone names the legacy Date parser knows, with their offsets in hours
ZoneNames ==
    ( <<"U","T","C">> :> 0 )     @@ ( <<"G","M","T">> :> 0 )     @@
    ( <<"E","S","T">> :> (0-5) ) @@ ( <<"E","D","T">> :> (0-4) ) @@
    ( <<"C","S","T">> :> (0-6) ) @@ ( <<"P","S","T">> :> (0-8) )

\* seconds of the written wall-clock date and time since the start of the month
WallDate(cs) == (Num2(cs, 9) - 1) * 86400
WallTime(cs) == Num2(cs, 12) * 3600 + Num2(cs, 15) * 60 + Num2(cs, 18)

(***************************************************************************)
(* new Date(string) for the shapes of text the model uses:                 *)
(*   YYYY-MM-DD                       date only: UTC midnight              *)
(*   YYYY-MM-DDTHH:MM:SS[.mmm][Z|+HH:MM|-HH:MM]   no zone: local time      *)
(*   YYYY-MM-DD HH:MM:SS[ ZONE]       legacy form, no zone: local time     *)
(* Any other text is an invalid Date.  zone is the script time zone.       *)
(***************************************************************************)
DateParse(cs, zone) ==
    IF ~IsDateText(cs, 1) THEN NaN
    ELSE IF Len(cs) = 10 THEN DateAt(WallDate(cs))
    ELSE IF ~(Len(cs) >= 19 /\ cs[11] \in {"T", " "} /\ IsTimeText(cs, 12)) THEN NaN
    ELSE LET wall == WallDate(cs) + WallTime(cs)
             frac == cs[11] = "T" /\ Len(cs) >= 23 /\ cs[20] = "." /\ AllDigits(cs, 21, 23)
             sfx  == SubSeq(cs, IF frac THEN 24 ELSE 20, Len(cs))
         IN  IF sfx = <<>> THEN DateAt(wall - zone * 3600)
             ELSE IF cs[11] = "T" /\ sfx = <<"Z">> THEN DateAt(wall)
             ELSE IF cs[11] = "T" /\ IsOffsetText(sfx) THEN DateAt(wall - OffsetSeconds(sfx))
             ELSE IF cs[11] = " " /\ Len(sfx) = 4 /\ sfx[1] = " "
                     /\ SubSeq(sfx, 2, 4) \in DOMAIN ZoneNames
                  THEN DateAt(wall - ZoneNames[SubSeq(sfx, 2, 4)] * 3600)
             ELSE NaN

\* new Date(v) for any value: a number is milliseconds since the epoch,
\* far before the modelled month, and always a valid Date
NewDate(v, zone) ==
    IF v.t = "string" THEN DateParse(v.s, zone)
    ELSE IF v.t = "number" THEN DateAt(0)
    ELSE NaN

\* Date.prototype.getHours: the hour of the day in the script time zone
getHours(d, zone) == ((d.t + zone * 3600) % 86400) \div 3600

\* Date.prototype.setHours(h): h past 23 rolls over into the following days
setHours(d, h, zone) ==
    LET wall     == d.t + zone * 3600
        dayStart == (wall \div 86400) * 86400
        minSec   == wall % 3600
    IN  DateAt(dayStart + h * 3600 + minSec - zone * 3600)

\* Date.prototype.toISOString: "2025-09-DDTHH:MM:SS.000Z"
toISOString(d) ==
    LET day == (d.t \div 86400) + 1
        sec == d.t % 86400
    IN  MonthText \o TwoDigits(day) \o <<"T">>
          \o TwoDigits(sec \div 3600) \o <<":">>
          \o TwoDigits((sec % 3600) \div 60) \o <<":">>
          \o TwoDigits(sec % 60) \o <<".","0","0","0","Z">>

\* /[A-Z]{2,3}$/ : the text ends with two capital letters
EndsWithCapitals(cs) ==
    Len(cs) >= 2 /\ IsUpper(cs[Len(cs)]) /\ IsUpper(cs[Len(cs) - 1])

\* the hours added for an input taken to be Eastern Time
ET_TO_UTC_HOURS == 4

\* the assumed-zone adjustment left out
normalizeDateTime_NoShift(input, zone) ==
    IF Falsy(input) THEN JsNull
    ELSE LET date == NewDate(input, zone)
         IN  IF ~date.valid \/ input.t # "string" THEN JsNull
             ELSE JsStr(toISOString(date))

\* normalizeDateTime(input): null, or the ISO string of the normalised Date.
\* input.includes on a value that is no string throws, and the catch returns null.
normalizeDateTime(input, zone) ==
    IF Falsy(input) THEN JsNull
    ELSE LET date == NewDate(input, zone)
         IN  IF ~date.valid THEN JsNull
             ELSE IF input.t # "string" THEN JsNull
             ELSE IF ~includes(input.s, "Z") /\ ~includes(input.s, "+")
                       /\ ~EndsWithCapitals(input.s)
                  THEN JsStr(toISOString(
                           setHours(date, getHours(date, zone) + ET_TO_UTC_HOURS, zone)))
             ELSE JsStr(toISOString(date))


(***************************************************************************)
(* SpecDate: normalizeDateTime applied to date texts, under each script    *)
(* time zone.                                                              *)
(***************************************************************************)
ScriptTimeZones == {0, 0 - 4, 8}    \* UTC, America/New_York (EDT), Asia/Kuala_Lumpur
InputDays  == {10, 20}
InputHours == {2, 14, 22}

DayText(day)   == MonthText \o TwoDigits(day)
ClockText(h)   == TwoDigits(h) \o <<":","0","0",":","0","0">>
IsoSuffixes    == { <<>>, <<"Z">>, <<"+","0","2",":","0","0">>, <<"-","0","5",":","0","0">> }
LegacySuffixes == { <<>>, <<" ","U","T","C">>, <<" ","E","S","T">>, <<" ","G","M","T">> }
InvalidDateText == <<"I","n","v","a","l","i","d"," ","D","a","t","e">>

DateTexts ==
    {DayText(d) : d \in InputDays}
      \cup {DayText(d) \o <<"T">> \o ClockText(h) \o x :
                d \in InputDays, h \in InputHours, x \in IsoSuffixes}
      \cup {DayText(d) \o <<" ">> \o ClockText(h) \o x :
                d \in InputDays, h \in InputHours, x \in LegacySuffixes}
      \cup {InvalidDateText, <<>>}

DateInputs == {JsStr(cs) : cs \in DateTexts} \cup {JsNull, JsUndefined, JsNum(0), JsNum(5)}

NoSheet == headers = <<>> /\ rows = <<>>

InitDate ==
    /\ NoSession
    /\ NoSheet
    /\ tz \in ScriptTimeZones
    /\ op \in {[name |-> "input", input |-> x] : x \in DateInputs}
    /\ result = JsUndefined

NormalizeDateTime ==
    /\ op.name = "input"
    /\ op' = [name |-> "normalizeDateTime", input |-> op.input]
    /\ result' = normalizeDateTime(op.input, tz)
    /\ UNCHANGED <<headers, rows, tz, session>>

NextDate == NormalizeDateTime

SpecDate == InitDate /\ [][NextDate]_vars

(***************************************************************************)
(* What the statements about normalizeDateTime speak of.                   *)
(***************************************************************************)
\* timezone evidence: a literal Z, a numeric offset, or a known zone name
TzEvidence(cs) ==
    \/ includes(cs, "Z")
    \/ Len(cs) >= 6 /\ IsOffsetText(SubSeq(cs, Len(cs) - 5, Len(cs)))
    \/ Len(cs) >= 3 /\ SubSeq(cs, Len(cs) - 2, Len(cs)) \in DOMAIN ZoneNames

\* the wall-clock time as written, in seconds since the start of the month
Written(cs) == WallDate(cs) + (IF Len(cs) = 10 THEN 0 ELSE WallTime(cs))

\* normalizeDateTime has just been applied to a text that parses and shows no zone
ParsedWithoutZone ==
    /\ op.name = "normalizeDateTime"
    /\ op.input.t = "string"
    /\ NewDate(op.input, tz).valid
    /\ ~TzEvidence(op.input.s)

\* the instant an ISO string returned by the function denotes
InstantOf(v) == DateParse(v.s, 0)

MissingTimezone == [ok |-> FALSE, reason |-> "missing_timezone"]

C5_EasternToUtc ==
    op.name = "normalizeDateTime" =>
        /\ (Falsy(op.input) \/ ~NewDate(op.input, tz).valid) => result = JsNull
        /\ ParsedWithoutZone =>
              /\ result.t = "string"
              /\ InstantOf(result) = DateAt(Written(op.input.s) + 4 * 3600)

\* the documented example reached under a script time zone other than UTC
C5_Witness ==
    /\ ParsedWithoutZone
    /\ op.input.s = DayText(10) \o <<" ">> \o ClockText(14)
    /\ tz # 0


(***************************************************************************)
(* Strings the code takes apart, with their characters.  Str is the        *)
(* string made of given characters.                                        *)
(***************************************************************************)
\* BEGIN CharsOf
CharsOf ==
       ("" :> <<>>)
    @@ ("MISSING_REQUIRED_FIELD" :> <<"M","I","S","S","I","N","G","_","R","E","Q","U","I","R","E","D","_","F","I","E","L","D">>)
    @@ ("INVALID_DATE_FORMAT" :> <<"I","N","V","A","L","I","D","_","D","A","T","E","_","F","O","R","M","A","T">>)
    @@ ("MISSING_COLUMN" :> <<"M","I","S","S","I","N","G","_","C","O","L","U","M","N">>)
    @@ ("missing_required_field" :> <<"m","i","s","s","i","n","g","_","r","e","q","u","i","r","e","d","_","f","i","e","l","d">>)
    @@ ("invalid_date_format" :> <<"i","n","v","a","l","i","d","_","d","a","t","e","_","f","o","r","m","a","t">>)
    @@ ("missing_column" :> <<"m","i","s","s","i","n","g","_","c","o","l","u","m","n">>)
    @@ ("Load ID" :> <<"L","o","a","d"," ","I","D">>)
    @@ ("Ref" :> <<"R","e","f">>)
    @@ ("VRID" :> <<"V","R","I","D">>)
    @@ ("Reference" :> <<"R","e","f","e","r","e","n","c","e">>)
    @@ ("Ref #" :> <<"R","e","f"," ","#">>)
    @@ ("From" :> <<"F","r","o","m">>)
    @@ ("PU" :> <<"P","U">>)
    @@ ("Pickup" :> <<"P","i","c","k","u","p">>)
    @@ ("Origin" :> <<"O","r","i","g","i","n">>)
    @@ ("Pickup Address" :> <<"P","i","c","k","u","p"," ","A","d","d","r","e","s","s">>)
    @@ ("PU Time" :> <<"P","U"," ","T","i","m","e">>)
    @@ ("Pickup Appt" :> <<"P","i","c","k","u","p"," ","A","p","p","t">>)
    @@ ("Pickup Date/Time" :> <<"P","i","c","k","u","p"," ","D","a","t","e","/","T","i","m","e">>)
    @@ ("To" :> <<"T","o">>)
    @@ ("Drop" :> <<"D","r","o","p">>)
    @@ ("Delivery" :> <<"D","e","l","i","v","e","r","y">>)
    @@ ("Destination" :> <<"D","e","s","t","i","n","a","t","i","o","n">>)
    @@ ("Delivery Address" :> <<"D","e","l","i","v","e","r","y"," ","A","d","d","r","e","s","s">>)
    @@ ("DEL Time" :> <<"D","E","L"," ","T","i","m","e">>)
    @@ ("Delivery Appt" :> <<"D","e","l","i","v","e","r","y"," ","A","p","p","t">>)
    @@ ("Delivery Date/Time" :> <<"D","e","l","i","v","e","r","y"," ","D","a","t","e","/","T","i","m","e">>)
    @@ ("Status" :> <<"S","t","a","t","u","s">>)
    @@ ("Load Status" :> <<"L","o","a","d"," ","S","t","a","t","u","s">>)
    @@ ("Stage" :> <<"S","t","a","g","e">>)
    @@ ("Driver" :> <<"D","r","i","v","e","r">>)
    @@ ("Driver Name" :> <<"D","r","i","v","e","r"," ","N","a","m","e">>)
    @@ ("Phone" :> <<"P","h","o","n","e">>)
    @@ ("Driver Phone" :> <<"D","r","i","v","e","r"," ","P","h","o","n","e">>)
    @@ ("Contact" :> <<"C","o","n","t","a","c","t">>)
    @@ ("Unit" :> <<"U","n","i","t">>)
    @@ ("Truck" :> <<"T","r","u","c","k">>)
    @@ ("Truck #" :> <<"T","r","u","c","k"," ","#">>)
    @@ ("Tractor" :> <<"T","r","a","c","t","o","r">>)
    @@ ("Unit Number" :> <<"U","n","i","t"," ","N","u","m","b","e","r">>)
    @@ ("Broker" :> <<"B","r","o","k","e","r">>)
    @@ ("Customer" :> <<"C","u","s","t","o","m","e","r">>)
    @@ ("Shipper" :> <<"S","h","i","p","p","e","r">>)
    @@ ("loadId" :> <<"l","o","a","d","I","d">>)
    @@ ("fromAddress" :> <<"f","r","o","m","A","d","d","r","e","s","s">>)
    @@ ("fromAppointmentDateTimeUTC" :> <<"f","r","o","m","A","p","p","o","i","n","t","m","e","n","t","D","a","t","e","T","i","m","e","U","T","C">>)
    @@ ("toAddress" :> <<"t","o","A","d","d","r","e","s","s">>)
    @@ ("toAppointmentDateTimeUTC" :> <<"t","o","A","p","p","o","i","n","t","m","e","n","t","D","a","t","e","T","i","m","e","U","T","C">>)
    @@ ("status" :> <<"s","t","a","t","u","s">>)
    @@ ("driverName" :> <<"d","r","i","v","e","r","N","a","m","e">>)
    @@ ("unitNumber" :> <<"u","n","i","t","N","u","m","b","e","r">>)
    @@ ("broker" :> <<"b","r","o","k","e","r">>)
    @@ ("load id" :> <<"l","o","a","d"," ","i","d">>)
    @@ ("ref" :> <<"r","e","f">>)
    @@ ("vrid" :> <<"v","r","i","d">>)
    @@ ("reference" :> <<"r","e","f","e","r","e","n","c","e">>)
    @@ ("ref #" :> <<"r","e","f"," ","#">>)
    @@ ("from" :> <<"f","r","o","m">>)
    @@ ("pu" :> <<"p","u">>)
    @@ ("pickup" :> <<"p","i","c","k","u","p">>)
    @@ ("origin" :> <<"o","r","i","g","i","n">>)
    @@ ("pickup address" :> <<"p","i","c","k","u","p"," ","a","d","d","r","e","s","s">>)
    @@ ("pickup location" :> <<"p","i","c","k","u","p"," ","l","o","c","a","t","i","o","n">>)
    @@ ("pu time" :> <<"p","u"," ","t","i","m","e">>)
    @@ ("pickup appt" :> <<"p","i","c","k","u","p"," ","a","p","p","t">>)
    @@ ("pickup date/time" :> <<"p","i","c","k","u","p"," ","d","a","t","e","/","t","i","m","e">>)
    @@ ("to" :> <<"t","o">>)
    @@ ("drop" :> <<"d","r","o","p">>)
    @@ ("delivery" :> <<"d","e","l","i","v","e","r","y">>)
    @@ ("destination" :> <<"d","e","s","t","i","n","a","t","i","o","n">>)
    @@ ("delivery address" :> <<"d","e","l","i","v","e","r","y"," ","a","d","d","r","e","s","s">>)
    @@ ("delivery location" :> <<"d","e","l","i","v","e","r","y"," ","l","o","c","a","t","i","o","n">>)
    @@ ("del time" :> <<"d","e","l"," ","t","i","m","e">>)
    @@ ("delivery appt" :> <<"d","e","l","i","v","e","r","y"," ","a","p","p","t">>)
    @@ ("delivery date/time" :> <<"d","e","l","i","v","e","r","y"," ","d","a","t","e","/","t","i","m","e">>)
    @@ ("load status" :> <<"l","o","a","d"," ","s","t","a","t","u","s">>)
    @@ ("stage" :> <<"s","t","a","g","e">>)
    @@ ("driver" :> <<"d","r","i","v","e","r">>)
    @@ ("driver name" :> <<"d","r","i","v","e","r"," ","n","a","m","e">>)
    @@ ("driver/carrier" :> <<"d","r","i","v","e","r","/","c","a","r","r","i","e","r">>)
    @@ ("driverPhone" :> <<"d","r","i","v","e","r","P","h","o","n","e">>)
    @@ ("phone" :> <<"p","h","o","n","e">>)
    @@ ("driver phone" :> <<"d","r","i","v","e","r"," ","p","h","o","n","e">>)
    @@ ("contact" :> <<"c","o","n","t","a","c","t">>)
    @@ ("unit" :> <<"u","n","i","t">>)
    @@ ("truck" :> <<"t","r","u","c","k">>)
    @@ ("truck #" :> <<"t","r","u","c","k"," ","#">>)
    @@ ("tractor" :> <<"t","r","a","c","t","o","r">>)
    @@ ("unit number" :> <<"u","n","i","t"," ","n","u","m","b","e","r">>)
    @@ ("customer" :> <<"c","u","s","t","o","m","e","r">>)
    @@ ("shipper" :> <<"s","h","i","p","p","e","r">>)
    @@ (" load id " :> <<" ","l","o","a","d"," ","i","d"," ">>)
    @@ ("LOADID" :> <<"L","O","A","D","I","D">>)
    @@ ("Notes" :> <<"N","o","t","e","s">>)
    @@ ("Carrier" :> <<"C","a","r","r","i","e","r">>)
    @@ ("A St" :> <<"A"," ","S","t">>)
    @@ ("B St" :> <<"B"," ","S","t">>)
    @@ ("2025-09-10T14:00:00Z" :> <<"2","0","2","5","-","0","9","-","1","0","T","1","4",":","0","0",":","0","0","Z">>)
    @@ ("2025-09-11T09:00:00Z" :> <<"2","0","2","5","-","0","9","-","1","1","T","0","9",":","0","0",":","0","0","Z">>)
    @@ ("Pending" :> <<"P","e","n","d","i","n","g">>)
    @@ ("In Progress" :> <<"I","n"," ","P","r","o","g","r","e","s","s">>)
    @@ ("Completed" :> <<"C","o","m","p","l","e","t","e","d">>)
    @@ ("Cancelled" :> <<"C","a","n","c","e","l","l","e","d">>)
    @@ ("Ann" :> <<"A","n","n">>)
    @@ ("U1" :> <<"U","1">>)
    @@ ("Acme" :> <<"A","c","m","e">>)
    @@ ("X1" :> <<"X","1">>)
    @@ ("L1" :> <<"L","1">>)
    @@ ("L2" :> <<"L","2">>)
    @@ ("L3" :> <<"L","3">>)
    @@ ("L4" :> <<"L","4">>)
    @@ ("L5" :> <<"L","5">>)
    @@ ("L6" :> <<"L","6">>)
    @@ ("L7" :> <<"L","7">>)
    @@ ("Invalid Date" :> <<"I","n","v","a","l","i","d"," ","D","a","t","e">>)
    @@ ("2025-09-10 14:00:00" :> <<"2","0","2","5","-","0","9","-","1","0"," ","1","4",":","0","0",":","0","0">>)
    @@ ("Delivered" :> <<"D","e","l","i","v","e","r","e","d">>)
    @@ ("2025-09-10T14:00:00.000Z" :> <<"2","0","2","5","-","0","9","-","1","0","T","1","4",":","0","0",":","0","0",".","0","0","0","Z">>)
    @@ ("2025-09-11T09:00:00.000Z" :> <<"2","0","2","5","-","0","9","-","1","1","T","0","9",":","0","0",":","0","0",".","0","0","0","Z">>)
    @@ ("2025-09-10T18:00:00.000Z" :> <<"2","0","2","5","-","0","9","-","1","0","T","1","8",":","0","0",":","0","0",".","0","0","0","Z">>)
    @@ ("2025-09-10T06:00:00.000Z" :> <<"2","0","2","5","-","0","9","-","1","0","T","0","6",":","0","0",":","0","0",".","0","0","0","Z">>)
    @@ (" Yes " :> <<" ","Y","e","s"," ">>)
    @@ ("Yes" :> <<"Y","e","s">>)
    @@ ("No" :> <<"N","o">>)
\* END CharsOf

Chars(s) == CharsOf[s]

\* s.toLowerCase(), s.toLowerCase().trim() and s.trim() of every string, computed once
toLowerCaseOf     == [s \in DOMAIN CharsOf |-> toLowerCase(CharsOf[s])]
toLowerCaseTrimOf == [s \in DOMAIN CharsOf |-> trim(toLowerCase(CharsOf[s]))]
trimOf            == [s \in DOMAIN CharsOf |-> trim(CharsOf[s])]

\* new Date(s) of every string under every script time zone, computed once
newDateOf == [s \in DOMAIN CharsOf, zone \in ScriptTimeZones |-> DateParse(CharsOf[s], zone)]
Str(cs)  == CHOOSE s \in DOMAIN CharsOf : CharsOf[s] = cs

\* the value undefined, where a string may be missing
Undefined == "(undefined)"

\* `${v}` : a template literal writes undefined as the text "undefined"
Text(v) == IF v = Undefined THEN "undefined" ELSE v

\* v || d  for a string or undefined v
OrElse(v, d) == IF v = Undefined \/ v = "" THEN d ELSE v

(***************************************************************************)
(* Issues.  rows is the list of sheet row numbers (an issue without rows   *)
(* has the empty list: every reader takes `issue.rows || []`); column and  *)
(* suggestion may be undefined; action is NoAction when there is none.     *)
(* message is carried like severity and is left out.                       *)
(***************************************************************************)
NoAction == [command |-> Undefined, column |-> Undefined, rows |-> <<>>]

Issue(code, severity, column, rws) ==
    [code |-> code, severity |-> severity, column |-> column, rows |-> rws,
     suggestion |-> Undefined, action |-> NoAction]

\* [...new Set(seq)] : first appearances, in order
RECURSIVE Dedup(_)
Dedup(seq) ==
    IF seq = <<>> THEN <<>>
    ELSE LET init == Dedup(SubSeq(seq, 1, Len(seq) - 1))
             x    == seq[Len(seq)]
         IN  IF \E i \in 1..Len(init) : init[i] = x THEN init ELSE Append(init, x)

\* An object used as a dictionary, or a Map: entries in insertion order.
\* (No key built here is an integer index, so insertion order is kept.)
HasKey(dict, key) == \E i \in 1..Len(dict) : dict[i].key = key
IndexOfKey(dict, key) == CHOOSE i \in 1..Len(dict) : dict[i].key = key
Values(dict) == [i \in 1..Len(dict) |-> dict[i].value]

\* Code.gs groupIssues, one issue of the forEach
GroupStep(grouped, issue) ==
    LET key == Text(issue.code) \o "|" \o OrElse(issue.column, "")
    IN  IF ~HasKey(grouped, key)
        THEN Append(grouped, [key |-> key, value |-> issue])
        ELSE LET i == IndexOfKey(grouped, key)
             IN  [grouped EXCEPT ![i].value.rows = Dedup(@ \o issue.rows)]

RECURSIVE GroupFold(_, _)
GroupFold(grouped, issues) ==
    IF issues = <<>> THEN grouped
    ELSE GroupFold(GroupStep(grouped, Head(issues)), Tail(issues))

\* Code.gs groupIssues(issues)
groupIssues(issues) == Values(GroupFold(<<>>, issues))

DefaultSuggestion == "Please review and update the sheet manually."

\* groupIssues(...).map(issue => ({...issue, suggestion: issue.suggestion || "..."}))
GroupAndSuggest(issues) ==
    LET g == groupIssues(issues)
    IN  [i \in 1..Len(g) |->
            [g[i] EXCEPT !.suggestion = OrElse(@, DefaultSuggestion)]]

FIXABLE_ISSUES == {"MISSING_REQUIRED_FIELD", "INVALID_DATE_FORMAT"}

\* `fix_${issue.code.toLowerCase()}`
FixCommand(code) == "fix_" \o Str(toLowerCase(Chars(code)))

\* the entry groupIssues (part_000) creates for a new key, with its rows
\* started from the issue's own rows before the issue's rows are pushed
NewGroup000_RowsCopied(issue) ==
    [code |-> issue.code, severity |-> issue.severity, column |-> issue.column,
     rows |-> issue.rows, suggestion |-> issue.suggestion,
     action |-> IF issue.code \in FIXABLE_ISSUES
                THEN [command |-> FixCommand(issue.code), column |-> issue.column,
                      rows |-> issue.rows]
                ELSE NoAction]

\* part_000 groupIssues: the entry created for a new key
NewGroup000(issue) ==
    [code |-> issue.code, severity |-> issue.severity, column |-> issue.column,
     rows |-> <<>>, suggestion |-> issue.suggestion,
     action |-> IF issue.code \in FIXABLE_ISSUES
                THEN [command |-> FixCommand(issue.code), column |-> issue.column,
                      rows |-> <<>>]
                ELSE NoAction]

\* pushes the issue's rows onto the entry's rows only
PushRows_IssueOnly(entry, issue) == [entry EXCEPT !.rows = @ \o issue.rows]

\* pushes the issue's rows onto the entry's rows and, if it has one, its action's rows
PushRows(entry, issue) ==
    [entry EXCEPT !.rows = @ \o issue.rows,
                  !.action = IF @ = NoAction THEN @
                             ELSE [@ EXCEPT !.rows = @ \o issue.rows]]

\* part_000 groupIssues, one issue of the forEach
GroupStep000(grouped, issue) ==
    LET key  == Text(issue.code) \o "-" \o Text(issue.column)
        with == IF HasKey(grouped, key) THEN grouped
                ELSE Append(grouped, [key |-> key, value |-> NewGroup000(issue)])
        i    == IndexOfKey(with, key)
    IN  [with EXCEPT ![i].value = PushRows(@, issue)]

RECURSIVE GroupFold000(_, _)
GroupFold000(grouped, issues) ==
    IF issues = <<>> THEN grouped
    ELSE GroupFold000(GroupStep000(grouped, Head(issues)), Tail(issues))

\* part_000 groupIssues(analysisResult), on the issues of the result
groupIssues000(issues) == Values(GroupFold000(<<>>, issues))

\* analyzeSheet's addIssue(newIssue) on its issueMap
addIssue(issueMap, newIssue) ==
    LET key == Text(newIssue.code) \o "-" \o Text(newIssue.column)
    IN  IF HasKey(issueMap, key)
        THEN LET i == IndexOfKey(issueMap, key)
             IN  [issueMap EXCEPT ![i].value.rows = @ \o newIssue.rows]
        ELSE Append(issueMap, [key |-> key, value |-> newIssue])

RECURSIVE AddIssues(_, _)
AddIssues(issueMap, issues) ==
    IF issues = <<>> THEN issueMap
    ELSE AddIssues(addIssue(issueMap, Head(issues)), Tail(issues))


\* part_009 groupIssues: the entry created for a new key
NewGroup009(issue) ==
    [code |-> issue.code, severity |-> issue.severity, column |-> issue.column,
     rows |-> <<>>, suggestion |-> issue.suggestion,
     action |-> IF issue.code \in FIXABLE_ISSUES \/ issue.code = "MISSING_COLUMN"
                THEN [command |-> FixCommand(issue.code), column |-> issue.column,
                      rows |-> <<>>]
                ELSE NoAction]

\* part_009 groupIssues, one issue of the forEach
GroupStep009(grouped, issue) ==
    LET key  == Text(issue.code) \o "-" \o OrElse(issue.column, "no_column")
        with == IF HasKey(grouped, key) THEN grouped
                ELSE Append(grouped, [key |-> key, value |-> NewGroup009(issue)])
        i    == IndexOfKey(with, key)
    IN  [with EXCEPT ![i].value = PushRows(@, issue)]

RECURSIVE GroupFold009(_, _)
GroupFold009(grouped, issues) ==
    IF issues = <<>> THEN grouped
    ELSE GroupFold009(GroupStep009(grouped, Head(issues)), Tail(issues))

\* part_009 groupIssues(analysisResult), on the issues of the result
groupIssues009(issues) == Values(GroupFold009(<<>>, issues))

(***************************************************************************)
(* SpecGroup: the grouping functions applied to issue lists.               *)
(***************************************************************************)
MaxIssues == 3

IssueUniverse ==
    { Issue("DUPLICATE_ID", "error", "Load ID", <<2, 3>>),
      Issue("DUPLICATE_ID", "error", "Load ID", <<3, 4>>),
      Issue("INVALID_DATE_FORMAT", "error", "PU Time", <<2>>),
      Issue("INVALID_DATE_FORMAT", "warn", "PU Time", <<2, 2>>),
      Issue("INVALID_DATE_FORMAT", "error", "DEL Time", <<3>>),
      Issue("MISSING_COLUMN", "error", Undefined, <<>>),
      [Issue("INVALID_STATUS", "warn", "Status", <<4>>) EXCEPT !.suggestion = "Use Pending"],
      Issue("NON_ISO", "warn", "DATE-TIME", <<2>>),
      Issue("NON_ISO-DATE", "warn", "TIME", <<3>>),
      Issue("BAD", "error", "A|B", <<2>>),
      Issue("BAD|A", "error", "B", <<3>>) }

IssueLists == UNION {[1..n -> IssueUniverse] : n \in 0..MaxIssues}

InitGroup ==
    /\ NoSession
    /\ NoSheet
    /\ tz = 0
    /\ op \in {[name |-> "input", input |-> x] : x \in IssueLists}
    /\ result = <<>>

Grouped(name, g) ==
    /\ op.name = "input"
    /\ op' = [name |-> name, input |-> op.input]
    /\ result' = g
    /\ UNCHANGED <<headers, rows, tz, session>>

GroupIssues    == Grouped("groupIssues", groupIssues(op.input))
GroupIssues000 == Grouped("groupIssues000", groupIssues000(op.input))
GroupIssues009 == Grouped("groupIssues009", groupIssues009(op.input))
AddIssue       == Grouped("addIssue", Values(AddIssues(<<>>, op.input)))

NextGroup == GroupIssues \/ GroupIssues000 \/ GroupIssues009 \/ AddIssue

SpecGroup == InitGroup /\ [][NextGroup]_vars

GroupingOps == {"groupIssues", "groupIssues000", "groupIssues009", "addIssue"}

PairOf(issue) == <<issue.code, issue.column>>
Pairs(issues) == {PairOf(issues[i]) : i \in 1..Len(issues)}

\* the rows of the issues of a list that carry the pair, concatenated in order
RECURSIVE RowsOfPair(_, _)
RowsOfPair(issues, pair) ==
    IF issues = <<>> THEN <<>>
    ELSE (IF PairOf(Head(issues)) = pair THEN Head(issues).rows ELSE <<>>)
            \o RowsOfPair(Tail(issues), pair)

\* C7: grouping returns exactly one issue per distinct (code, column) pair of its
\* input, and that issue's rows are the union of the rows of the input issues with
\* the pair, in order of first appearance, no row number twice.
C7_OnePerPairRowsUnion ==
    op.name \in {"groupIssues", "groupIssues000", "addIssue"} =>
        /\ Len(result) = Cardinality(Pairs(op.input))
        /\ Pairs(result) = Pairs(op.input)
        /\ \A i \in 1..Len(result) :
              result[i].rows = Dedup(RowsOfPair(op.input, PairOf(result[i])))

\* two issues of one pair with a common row have been grouped
C7_Witness ==
    /\ op.name = "groupIssues000"
    /\ op.input = << Issue("DUPLICATE_ID", "error", "Load ID", <<2, 3>>),
                     Issue("DUPLICATE_ID", "error", "Load ID", <<3, 4>>) >>
    /\ result[1].rows = <<2, 3, 3, 4>>

\* C8: grouping is a fixed point: grouping a grouped list returns it unchanged
\* (same issues, order, rows and action), also with the default suggestion that
\* callOpenAI and analyzeActiveSheet add after each grouping.
C8_GroupingFixedPoint ==
    /\ op.name = "groupIssues" =>
          /\ groupIssues(result) = result
          /\ GroupAndSuggest(GroupAndSuggest(op.input)) = GroupAndSuggest(op.input)
    /\ op.name = "groupIssues000" => groupIssues000(result) = result

\* a grouping that merged issues and attached an action has been regrouped
C8_Witness ==
    /\ op.name = "groupIssues000"
    /\ Len(op.input) > Len(result)
    /\ \E i \in 1..Len(result) : result[i].action # NoAction /\ Len(result[i].rows) > 1

(***************************************************************************)
(* Header mapping.  A mapping is a function from the bound fields to what  *)
(* each is bound to: a header of the row (api.gs, part_007) or a 0-based   *)
(* column index (Code.gs).                                                 *)
(***************************************************************************)
Range(seq) == {seq[i] : i \in 1..Len(seq)}

\* Array.prototype.indexOf: the 0-based position of the first x, or -1
indexOf(seq, x) ==
    IF \E i \in 1..Len(seq) : seq[i] = x
    THEN (CHOOSE i \in 1..Len(seq) : seq[i] = x /\ \A j \in 1..(i-1) : seq[j] # x) - 1
    ELSE -1

\* Array.prototype.join
RECURSIVE join(_, _)
join(seq, sep) ==
    IF seq = <<>> THEN ""
    ELSE IF Len(seq) = 1 THEN seq[1]
    ELSE seq[1] \o sep \o join(Tail(seq), sep)

\* api.gs mapHeaders: the keys of synonyms, in `for (const field in synonyms)` order
synonyms ==
    [loadId |-> <<"Load ID", "Ref", "VRID", "Reference", "Ref #">>,
     fromAddress |-> <<"From", "PU", "Pickup", "Origin", "Pickup Address">>,
     fromAppointmentDateTimeUTC |-> <<"PU Time", "Pickup Appt", "Pickup Date/Time">>,
     toAddress |-> <<"To", "Drop", "Delivery", "Destination", "Delivery Address">>,
     toAppointmentDateTimeUTC |-> <<"DEL Time", "Delivery Appt", "Delivery Date/Time">>,
     status |-> <<"Status", "Load Status", "Stage">>,
     driverName |-> <<"Driver", "Driver Name">>,
     driverPhone |-> <<"Phone", "Driver Phone", "Contact">>,
     unitNumber |-> <<"Unit", "Truck", "Truck #", "Tractor", "Unit Number">>,
     broker |-> <<"Broker", "Customer", "Shipper">>]

requiredFields ==
    <<"loadId", "fromAddress", "fromAppointmentDateTimeUTC", "toAddress",
      "toAppointmentDateTimeUTC", "status", "driverName", "unitNumber", "broker">>

\* part_007
HEADER_SYNONYMS == synonyms

\* Code.gs
REQUIRED_FIELDS == requiredFields

HEADER_MAPPINGS ==
    [loadId |-> <<"loadId", "load id", "ref", "vrid", "reference", "ref #">>,
     fromAddress |-> <<"fromAddress", "from", "pu", "pickup", "origin", "pickup address",
                       "pickup location">>,
     fromAppointmentDateTimeUTC |-> <<"fromAppointmentDateTimeUTC", "pu time", "pickup appt",
                                      "pickup date/time">>,
     toAddress |-> <<"toAddress", "to", "drop", "delivery", "destination", "delivery address",
                     "delivery location">>,
     toAppointmentDateTimeUTC |-> <<"toAppointmentDateTimeUTC", "del time", "delivery appt",
                                    "delivery date/time">>,
     status |-> <<"status", "load status", "stage", "load status">>,
     driverName |-> <<"driverName", "driver", "driver name", "driver/carrier">>,
     driverPhone |-> <<"driverPhone", "phone", "driver phone", "contact">>,
     unitNumber |-> <<"unitNumber", "unit", "truck", "truck #", "tractor", "unit number">>,
     broker |-> <<"broker", "customer", "shipper">>]

\* headers.find(h => aliases.map(s => s.toLowerCase()).includes(h.toLowerCase().trim()))
FindHeader(hs, aliases) ==
    LET lowered == {toLowerCaseOf[aliases[k]] : k \in 1..Len(aliases)}
        hit(i)  == toLowerCaseTrimOf[hs[i]] \in lowered
    IN  IF \E i \in 1..Len(hs) : hit(i)
        THEN hs[CHOOSE i \in 1..Len(hs) : hit(i) /\ \A j \in 1..(i-1) : ~hit(j)]
        ELSE Undefined

\* a MISSING_COLUMN issue of severity warn
MissingColumn_Warn(column, aliases) ==
    [Issue("MISSING_COLUMN", "warn", column, <<>>) EXCEPT
        !.suggestion = "Add a column with a header like: " \o join(aliases, ", ")]

\* the MISSING_COLUMN issue of api.gs (column is the field) and part_007 (no column)
MissingColumn(column, aliases) ==
    [Issue("MISSING_COLUMN", "error", column, <<>>) EXCEPT
        !.suggestion = "Add a column with a header like: " \o join(aliases, ", ")]

\* api.gs mapHeaders(headers)
mapHeaders(hs) ==
    LET found   == {f \in DOMAIN synonyms : FindHeader(hs, synonyms[f]) # Undefined}
        missing == SelectSeq(requiredFields, LAMBDA f : f \notin found)
    IN  [mapping |-> [f \in found |-> FindHeader(hs, synonyms[f])],
         issues  |-> [k \in 1..Len(missing) |->
                          MissingColumn(missing[k], synonyms[missing[k]])]]

\* part_007 mapHeaders(headers)
mapHeaders007(hs) ==
    LET found   == {f \in Range(requiredFields) :
                       FindHeader(hs, HEADER_SYNONYMS[f]) # Undefined}
        missing == SelectSeq(requiredFields, LAMBDA f : f \notin found)
    IN  [mapping |-> [f \in found |-> FindHeader(hs, HEADER_SYNONYMS[f])],
         issues  |-> [k \in 1..Len(missing) |->
                          MissingColumn(Undefined, HEADER_SYNONYMS[missing[k]])]]

\* Code.gs mapHeaders(headers): the first synonym of the field that some header
\* equals after lowercasing binds the field to the index of the first such header
mapHeadersCode(hs) ==
    LET lowerCaseHeaders == [i \in 1..Len(hs) |-> toLowerCaseOf[hs[i]]]
        index(f, k) == indexOf(lowerCaseHeaders, toLowerCaseOf[HEADER_MAPPINGS[f][k]])
        found == {f \in DOMAIN HEADER_MAPPINGS :
                     \E k \in 1..Len(HEADER_MAPPINGS[f]) : index(f, k) # -1}
        first(f) == CHOOSE k \in 1..Len(HEADER_MAPPINGS[f]) :
                        index(f, k) # -1 /\ \A j \in 1..(k-1) : index(f, j) = -1
    IN  [map      |-> [f \in found |-> index(f, first(f))],
         allFound |-> Range(REQUIRED_FIELDS) \subseteq found]

(***************************************************************************)
(* SpecMap: the header mappers applied to header rows.                     *)
(***************************************************************************)
MaxHeaders == 3

HeaderUniverse ==
    {"loadId", "Load ID", " load id ", "LOADID", "Ref", "status", "Stage", "driverName",
     "Notes"}

HeaderRows == UNION {[1..n -> HeaderUniverse] : n \in 0..MaxHeaders}

InitMap ==
    /\ NoSession
    /\ headers \in HeaderRows
    /\ rows = <<>>
    /\ tz = 0
    /\ op = [name |-> "input", input |-> <<>>]
    /\ result = <<>>

Mapped(name, r) ==
    /\ op.name = "input"
    /\ op' = [name |-> name, input |-> headers]
    /\ result' = r
    /\ UNCHANGED <<headers, rows, tz, session>>

MapHeaders     == Mapped("mapHeaders", mapHeaders(headers))
MapHeaders007  == Mapped("mapHeaders007", mapHeaders007(headers))
MapHeadersCode == Mapped("mapHeadersCode", mapHeadersCode(headers))

NextMap == MapHeaders \/ MapHeaders007 \/ MapHeadersCode

SpecMap == InitMap /\ [][NextMap]_vars

\* C9: a header equal to a required canonical field name binds that field to that
\* header, whatever aliases the synonym table lists, and no MISSING_COLUMN is
\* reported for the field.
C9_ExactNameBinds ==
    \A f \in Range(requiredFields) :
        (\E i \in 1..Len(headers) : headers[i] = f) =>
            /\ op.name = "mapHeaders" =>
                  /\ f \in DOMAIN result.mapping
                  /\ result.mapping[f] = f
                  /\ \A k \in 1..Len(result.issues) :
                        ~(result.issues[k].code = "MISSING_COLUMN"
                            /\ result.issues[k].column = f)
            /\ op.name = "mapHeadersCode" =>
                  /\ f \in DOMAIN result.map
                  /\ headers[result.map[f] + 1] = f

\* the header row ["loadId"] has been mapped by api.gs mapHeaders, which left the
\* field unbound and reported its column missing
C9_Witness ==
    /\ op.name = "mapHeaders"
    /\ headers = <<"loadId">>
    /\ "loadId" \notin DOMAIN result.mapping
    /\ \E k \in 1..Len(result.issues) :
          result.issues[k].code = "MISSING_COLUMN" /\ result.issues[k].column = "loadId"

(***************************************************************************)
(* Sheet analysis.  A cell is a string, "" for an empty cell; every data   *)
(* row has one cell per header.  A load is a function from its fields to   *)
(* cell values or Null.  A result is a record whose loads, mapping and     *)
(* analyzedRows fields are present only when the code returns them.        *)
(***************************************************************************)
Null == "(null)"

Truthy(v) == v \notin {Undefined, Null, ""}

\* obj[key], undefined when the object has no such key
Get(obj, key) == IF key \in DOMAIN obj THEN obj[key] ELSE Undefined

\* issues.some(i => i.severity === 'error')
HasError(issues) == \E k \in 1..Len(issues) : issues[k].severity = "error"

RECURSIVE Concat(_)
Concat(seqs) == IF seqs = <<>> THEN <<>> ELSE Head(seqs) \o Concat(Tail(seqs))

DateFields == <<"fromAppointmentDateTimeUTC", "toAppointmentDateTimeUTC">>

allowedStatuses == <<"Pending", "In Progress", "Completed", "Cancelled">>

\* getRange(2, 1, 0, n) on a sheet without data rows
RangeError == [threw |-> "The number of rows in the range must be at least 1."]

\* validateSheet: the load read from a row through the mapping,
\* load[field] = (colIdx !== -1) ? (row[colIdx] || null) : null
ReadLoad(hs, mapping, row) ==
    [f \in DOMAIN mapping |->
        LET colIdx == indexOf(hs, mapping[f])
        IN  IF colIdx # -1 /\ Truthy(row[colIdx + 1]) THEN row[colIdx + 1] ELSE Null]

\* validateSheet: the issues one row adds; api.gs warns of a missing date, part_007 does not
RowIssues(load, rowNumber, loadIds, mapping, zone, missingDateWarned) ==
    LET idIssues ==
            IF ~Truthy(Get(load, "loadId"))
            THEN << [Issue("MISSING_ID", "error", Undefined, <<rowNumber>>)
                        EXCEPT !.suggestion = "Add a unique loadId"] >>
            ELSE IF load.loadId \in loadIds
            THEN << [Issue("DUPLICATE_ID", "error", Get(mapping, "loadId"), <<rowNumber>>)
                        EXCEPT !.suggestion = "Ensure all loadId values are unique"] >>
            ELSE <<>>
        dateIssues(dateField) ==
            LET dateVal == Get(load, dateField)
            IN  IF ~Truthy(dateVal)
                THEN IF missingDateWarned
                     THEN << [Issue("MISSING_DATE", "warn", Get(mapping, dateField),
                                    <<rowNumber>>)
                                EXCEPT !.suggestion = "Fill in the missing date"] >>
                     ELSE <<>>
                ELSE IF ~newDateOf[dateVal, zone].valid
                THEN << [Issue("INVALID_DATE", "error", Get(mapping, dateField),
                               <<rowNumber>>)
                           EXCEPT !.suggestion =
                               "Correct the date format (ISO 8601 recommended)"] >>
                ELSE <<>>
        statusIssues ==
            IF Truthy(Get(load, "status")) /\ load.status \notin Range(allowedStatuses)
            THEN << [Issue("INVALID_STATUS", "warn", Get(mapping, "status"), <<rowNumber>>)
                       EXCEPT !.suggestion =
                           "Consider normalizing to: " \o join(allowedStatuses, ", ")] >>
            ELSE <<>>
    IN  idIssues \o dateIssues(DateFields[1]) \o dateIssues(DateFields[2]) \o statusIssues

\* validateSheet: load[dateField] = date.toISOString() for each date that parses
WithIsoDates(load, zone) ==
    [f \in DOMAIN load |->
        IF f \in Range(DateFields) /\ Truthy(load[f]) /\ newDateOf[load[f], zone].valid
        THEN Str(toISOString(newDateOf[load[f], zone]))
        ELSE load[f]]

\* validateSheet: issues, loads and loadIds after the first n rows of data.forEach
RECURSIVE RowsValidated(_, _, _, _, _, _)
RowsValidated(hs, mapping, data, zone, missingDateWarned, n) ==
    IF n = 0 THEN [issues |-> <<>>, loads |-> <<>>, loadIds |-> {}]
    ELSE LET prev == RowsValidated(hs, mapping, data, zone, missingDateWarned, n - 1)
             load == ReadLoad(hs, mapping, data[n])
         IN  [issues  |-> prev.issues \o RowIssues(load, n + 1, prev.loadIds, mapping,
                                                  zone, missingDateWarned),
              loads   |-> Append(prev.loads, WithIsoDates(load, zone)),
              loadIds |-> IF Truthy(Get(load, "loadId"))
                          THEN prev.loadIds \cup {load.loadId} ELSE prev.loadIds]

\* the loads returned whatever the issues of the run are
ReturnedLoads_Always(issues, loads) == [loads |-> loads]

\* validateSheet: what the result carries as loads, given the issues of the run
ReturnedLoads(issues, loads) ==
    IF ~HasError(issues) THEN [loads |-> loads] ELSE <<>>

\* validateSheet from the mapped headers on (mh is the outcome of the header mapping)
ValidateMapped(hs, data, zone, mh, missingDateWarned) ==
    IF HasError(mh.issues)
    THEN [ok |-> FALSE, issues |-> mh.issues, mapping |-> mh.mapping, analyzedRows |-> 0]
    ELSE IF data = <<>> THEN RangeError
    ELSE LET v == RowsValidated(hs, mh.mapping, data, zone, missingDateWarned, Len(data))
             issues == mh.issues \o v.issues
         IN  [ok |-> ~HasError(issues), issues |-> issues, mapping |-> mh.mapping,
              analyzedRows |-> Len(data)] @@ ReturnedLoads(issues, v.loads)

\* api.gs validateSheet(sheet)
validateSheet(hs, data, zone) == ValidateMapped(hs, data, zone, mapHeaders(hs), TRUE)

\* part_007 validateSheet(sheet, existingMapping); existingMapping is <<>> for null
\* and <<m>> for the mapping m
validateSheet007(hs, data, existingMapping, zone) ==
    ValidateMapped(hs, data, zone,
                   IF existingMapping # <<>>
                   THEN [mapping |-> existingMapping[1], issues |-> <<>>]
                   ELSE mapHeaders007(hs),
                   FALSE)

\* analyzeSheet: !cellValue || cellValue.toString().trim() === ''
IsBlank(cell) == ~Truthy(cell) \/ trimOf[cell] = <<>>

\* /^\d{4}-\d{2}-\d{2}T\d{2}:\d{2}:\d{2}(\.\d{3})?Z?$/
IsISO(cs) ==
    /\ Len(cs) >= 19
    /\ AllDigits(cs, 1, 4) /\ cs[5] = "-" /\ AllDigits(cs, 6, 7) /\ cs[8] = "-"
    /\ AllDigits(cs, 9, 10) /\ cs[11] = "T"
    /\ AllDigits(cs, 12, 13) /\ cs[14] = ":" /\ AllDigits(cs, 15, 16) /\ cs[17] = ":"
    /\ AllDigits(cs, 18, 19)
    /\ LET rest == SubSeq(cs, 20, Len(cs))
       IN  \/ rest \in {<<>>, <<"Z">>}
           \/ /\ Len(rest) \in {4, 5}
              /\ rest[1] = "." /\ AllDigits(rest, 2, 4)
              /\ Len(rest) = 5 => rest[5] = "Z"

\* analyzeSheet: { command: 'selectCell', column: colIndex, row: rowIndex + 2 }
SelectCell(colIndex, row) == [command |-> "selectCell", column |-> colIndex, row |-> row]

\* analyzeSheet: the issues in the order addIssue receives them, and the loads
AnalyzedRows(map, data) ==
    LET rowCount == Len(data)
        cell(r, f) == data[r][map[f] + 1]
        statusValues ==
            Dedup(SelectSeq([r \in 1..rowCount |-> Str(trimOf[cell(r, "status")])],
                            LAMBDA v : v # ""))
        statusIssues ==
            IF Len(statusValues) > 1
            THEN << [Issue("INCONSISTENT_STATUS", "warn", Undefined, <<>>)
                       EXCEPT !.suggestion = "Please normalize your status values. Found: "
                                               \o join(statusValues, ", ") \o "."] >>
            ELSE <<>>
        emptyIssue(r, f) ==
            IF IsBlank(cell(r, f))
            THEN << [Issue("EMPTY_REQUIRED_CELL", "error", f, <<r + 1>>)
                       EXCEPT !.suggestion = "Enter a value in the column '" \o f \o "'.",
                              !.action = SelectCell(map[f], r + 1)] >>
            ELSE <<>>
        emptyIssues ==
            Concat([r \in 1..rowCount |->
                       Concat([k \in 1..Len(REQUIRED_FIELDS) |->
                                  emptyIssue(r, REQUIRED_FIELDS[k])])])
        rowHasError(r) == \E f \in Range(REQUIRED_FIELDS) : IsBlank(cell(r, f))
        load(r) ==
            [f \in Range(REQUIRED_FIELDS) \cup (DOMAIN map \cap {"driverPhone"}) |->
                IF f = "driverPhone" /\ ~Truthy(cell(r, f)) THEN Null ELSE cell(r, f)]
        cleanRows == SelectSeq([r \in 1..rowCount |-> r], LAMBDA r : ~rowHasError(r))
        loads == [i \in 1..Len(cleanRows) |-> load(cleanRows[i])]
        firstWith(i) == CHOOSE j \in 1..i : loads[j].loadId = loads[i].loadId
                                            /\ \A h \in 1..(j-1) : loads[h].loadId # loads[i].loadId
        duplicateIssue(i) ==
            IF firstWith(i) # i
            THEN << [Issue("DUPLICATE_ID", "error", "loadId", <<firstWith(i) + 1, i + 1>>)
                       EXCEPT !.suggestion = "Ensure each load has a unique ID."] >>
            ELSE <<>>
        duplicateIssues == Concat([i \in 1..Len(loads) |-> duplicateIssue(i)])
        dateIssue(r, f) ==
            IF ~Truthy(cell(r, f)) THEN <<>>
            ELSE IF ~newDateOf[cell(r, f), 0].valid
            THEN << [Issue("BAD_DATE_FORMAT", "error", f, <<r + 1>>)
                       EXCEPT !.suggestion = "Please use a valid ISO 8601 format.",
                              !.action = SelectCell(map[f], r + 1)] >>
            ELSE IF ~IsISO(Chars(cell(r, f)))
            THEN << [Issue("NON_ISO_OUTPUT", "warn", f, <<r + 1>>)
                       EXCEPT !.suggestion = "Please normalize to ISO 8601 UTC.",
                              !.action = SelectCell(map[f], r + 1)] >>
            ELSE <<>>
        dateIssues ==
            Concat([k \in 1..Len(DateFields) |->
                       Concat([r \in 1..rowCount |-> dateIssue(r, DateFields[k])])])
    IN  [issues |-> statusIssues \o emptyIssues \o duplicateIssues \o dateIssues,
         loads  |-> loads]

\* Code.gs analyzeSheet(), on the header row and the data rows of the sheet
analyzeSheet(hs, data) ==
    IF data = <<>>
    THEN [ok |-> FALSE,
          issues |-> << [Issue(Undefined, "error", Undefined, <<>>) EXCEPT !.suggestion =
              "Please ensure you have at least one header row and one data row."] >>]
    ELSE LET headerMap == mapHeadersCode(hs)
             missingHeaders ==
                 SelectSeq(REQUIRED_FIELDS, LAMBDA f : f \notin DOMAIN headerMap.map)
         IN  IF Len(missingHeaders) > 0
             THEN [ok |-> FALSE,
                   issues |-> << [Issue("MISSING_COLUMN", "error", Undefined, <<>>)
                       EXCEPT !.suggestion =
                           "Please ensure all required headers are present. Missing: "
                               \o join(missingHeaders, ", ")] >>,
                   loads |-> <<>>, mapping |-> headerMap.map, analyzedRows |-> Len(data)]
             ELSE LET a == AnalyzedRows(headerMap.map, data)
                      finalIssues == Values(AddIssues(<<>>, a.issues))
                  IN  IF Len(finalIssues) > 0
                      THEN [ok |-> FALSE, issues |-> finalIssues, loads |-> <<>>,
                            mapping |-> headerMap.map, analyzedRows |-> Len(data)]
                      ELSE [ok |-> TRUE, issues |-> <<>>, loads |-> a.loads,
                            mapping |-> headerMap.map, analyzedRows |-> Len(data)]

(***************************************************************************)
(* SpecSheet: the analysers applied to sheets.                             *)
(***************************************************************************)
MaxRows == 3

AliasHeaders ==
    <<"Load ID", "From", "PU Time", "To", "DEL Time", "Status", "Driver", "Unit",
      "Broker", "Ref">>

CanonicalHeaders ==
    <<"loadId", "fromAddress", "fromAppointmentDateTimeUTC", "toAddress",
      "toAppointmentDateTimeUTC", "status", "driverName", "unitNumber", "broker",
      "driverPhone">>

SheetHeaders ==
    {AliasHeaders, CanonicalHeaders, [AliasHeaders EXCEPT ![7] = "Carrier", ![10] = "Phone"],
     [AliasHeaders EXCEPT ![7] = "Carrier", ![9] = "Notes", ![10] = "Phone"]}

CleanRow(loadId) ==
    <<loadId, "A St", "2025-09-10T14:00:00Z", "B St", "2025-09-11T09:00:00Z", "Pending",
      "Ann", "U1", "Acme", "X1">>

RowUniverse ==
    { CleanRow("L1"),
      CleanRow("L2"),
      CleanRow(""),
      [CleanRow("L3") EXCEPT ![3] = "Invalid Date"],
      [CleanRow("L4") EXCEPT ![3] = "2025-09-10 14:00:00"],
      [CleanRow("L5") EXCEPT ![6] = "Delivered"],
      [CleanRow("L6") EXCEPT ![9] = ""],
      [CleanRow("L7") EXCEPT ![5] = ""] }

SheetRows == UNION {[1..n -> RowUniverse] : n \in 0..MaxRows}

ExistingMappings ==
    { <<>>,
      << [loadId |-> "Ref"] >>,
      << [f \in Range(requiredFields) |->
             IF f = "loadId" THEN "Ref"
             ELSE AliasHeaders[indexOf(CanonicalHeaders, f) + 1]] >> }

InitSheet ==
    /\ NoSession
    /\ headers \in SheetHeaders
    /\ rows \in SheetRows
    /\ tz \in ScriptTimeZones
    /\ op = [name |-> "input", input |-> <<>>]
    /\ result = <<>>

Analysed(name, input, r) ==
    /\ op.name = "input"
    /\ op' = [name |-> name, input |-> input]
    /\ result' = r
    /\ UNCHANGED <<headers, rows, tz, session>>

ValidateSheet == Analysed("validateSheet", <<>>, validateSheet(headers, rows, tz))

ValidateSheet007 ==
    \E existingMapping \in ExistingMappings :
        Analysed("validateSheet007", existingMapping,
                 validateSheet007(headers, rows, existingMapping, tz))

AnalyzeSheet == Analysed("analyzeSheet", <<>>, analyzeSheet(headers, rows))

NextSheet == ValidateSheet \/ ValidateSheet007 \/ AnalyzeSheet

SpecSheet == InitSheet /\ [][NextSheet]_vars

(***************************************************************************)
(* What the statements about the analysers speak of.                       *)
(***************************************************************************)
\* an analyser has returned a result (it did not throw)
Returned == op.name \in {"validateSheet", "validateSheet007", "analyzeSheet"}
                /\ "ok" \in DOMAIN result

\* the rows of the sheet were analysed: no required column was reported missing
RowsAnalysed ==
    /\ Returned /\ rows # <<>>
    /\ \A k \in 1..Len(result.issues) : result.issues[k].code # "MISSING_COLUMN"

\* the loads the analyser builds from data row r alone
LoadsOfRow(r) ==
    IF op.name = "analyzeSheet"
    THEN Range(AnalyzedRows(result.mapping, <<rows[r]>>).loads)
    ELSE {WithIsoDates(ReadLoad(headers, result.mapping, rows[r]), tz)}

\* the Load built from data row r is in the returned loads
Present(r) ==
    /\ "loads" \in DOMAIN result
    /\ \E j \in 1..Len(result.loads) : result.loads[j] \in LoadsOfRow(r)

\* an error-severity issue of the result references data row r (sheet row r + 1)
RowHasErrorIssue(r) ==
    \E k \in 1..Len(result.issues) :
        result.issues[k].severity = "error" /\ (r + 1) \in Range(result.issues[k].rows)

\* C1: in every result of an analysis run, ok is true if and only if the issues
\* contain no issue of severity error; warnings alone never make ok false.
C1_OkIffNoError == Returned => (result.ok <=> ~HasError(result.issues))

\* analyzeSheet has returned a result whose issues are all warnings
C1_Witness ==
    /\ op.name = "analyzeSheet" /\ Returned
    /\ result.issues # <<>> /\ ~HasError(result.issues)
    /\ ~result.ok

\* C3 as stated: for every data row, the Load built from the row is in the returned
\* loads if and only if no error-severity issue of the run references the row.
C3_LoadIffRowClean ==
    RowsAnalysed /\ op.name \in {"validateSheet", "analyzeSheet"} =>
        \A r \in 1..Len(rows) : Present(r) <=> ~RowHasErrorIssue(r)

\* C3: the loads are returned for all rows or for none.  For every data row, the
\* Load built from the row is in the returned loads if and only if the ok flag of
\* the result is true; an error-severity issue on any row withholds every load.
C3_LoadsAllOrNothing ==
    Returned /\ op.name \in {"validateSheet", "analyzeSheet"} =>
        /\ \A r \in 1..Len(rows) : Present(r) <=> result.ok
        /\ HasError(result.issues) => ~result.ok

\* validateSheet has analysed a sheet with an erroneous row and a row that no
\* error-severity issue references, and has withheld the load of the latter
C3_Witness ==
    /\ op.name = "validateSheet" /\ RowsAnalysed
    /\ \E r \in 1..Len(rows) : RowHasErrorIssue(r)
    /\ \E r \in 1..Len(rows) : ~RowHasErrorIssue(r) /\ ~Present(r)

\* data rows i and j are the only two rows of the sheet with the same loadId cell
\* (the first column of every header row of the model), and it is not empty
OnlyDuplicates(i, j) ==
    /\ i < j /\ rows[i][1] # "" /\ rows[i][1] = rows[j][1]
    /\ \A h, k \in 1..Len(rows) : h < k /\ rows[h][1] = rows[k][1] => h = i /\ k = j

\* C6: when two data rows carry the same non-empty loadId, the run reports exactly
\* one DUPLICATE_ID error issue, whose rows contain the sheet row numbers of both
\* the first row that used the id and the repeating row.
C6_OneDuplicateIssueBothRows ==
    RowsAnalysed /\ op.name \in {"validateSheet", "analyzeSheet"} =>
        \A i, j \in 1..Len(rows) :
            OnlyDuplicates(i, j) =>
                LET dup == {k \in 1..Len(result.issues) :
                               result.issues[k].code = "DUPLICATE_ID"}
                IN  /\ Cardinality(dup) = 1
                    /\ \A k \in dup : /\ result.issues[k].severity = "error"
                                      /\ {i + 1, j + 1} \subseteq Range(result.issues[k].rows)

\* validateSheet has analysed two rows with the same loadId and reported the
\* repeating row only
C6_Witness ==
    /\ op.name = "validateSheet" /\ RowsAnalysed
    /\ rows = <<CleanRow("L1"), CleanRow("L1")>>
    /\ \E k \in 1..Len(result.issues) :
          result.issues[k].code = "DUPLICATE_ID" /\ result.issues[k].rows = <<3>>

\* C10: in a run with a caller-supplied mapping override, every field named in the
\* override is bound as the override says, and every other field keeps the binding
\* of the automatic synonym pass.
C10_OverrideOverAutomatic ==
    op.name = "validateSheet007" /\ op.input # <<>> /\ "mapping" \in DOMAIN result =>
        LET override  == op.input[1]
            automatic == mapHeaders007(headers).mapping
        IN  /\ \A f \in DOMAIN override : Get(result.mapping, f) = override[f]
            /\ \A f \in DOMAIN synonyms \ DOMAIN override :
                  Get(result.mapping, f) = Get(automatic, f)

\* validateSheet has run with the override {loadId: "Ref"} on a sheet whose headers
\* the automatic pass maps completely, and its mapping binds loadId only
C10_Witness ==
    /\ op.name = "validateSheet007" /\ op.input = << [loadId |-> "Ref"] >>
    /\ headers = AliasHeaders /\ rows # <<>>
    /\ DOMAIN mapHeaders007(headers).mapping = Range(requiredFields)
    /\ DOMAIN result.mapping = {"loadId"}

(***************************************************************************)
(* The chat entry point of Code.gs.  The analysis is asked of a remote     *)
(* model; what it replies to a request is the environment's choice, within *)
(* the JSON shape the system prompt asks for.                              *)
(***************************************************************************)
\* the fetch threw, the body had no choices, or the content was not JSON
NoReply == [failed |-> TRUE]

\* obj without the key: delete obj[key]
Without(obj, key) == [f \in DOMAIN obj \ {key} |-> obj[f]]

\* the results synthesised for a failure, with their one issue
ErrorResult(code) ==
    [ok |-> FALSE, issues |-> << Issue(code, "error", Undefined, <<>>) >>,
     mapping |-> <<>>, analyzedRows |-> 0]

\* callOpenAI(rawHeaders, sampleData, headerOverrides, returnLoads), given the reply
\* to its request; the request carries rawHeaders and sampleData, never headerOverrides
callOpenAI(rawHeaders, sampleData, headerOverrides, returnLoads, reply) ==
    IF reply = NoReply THEN ErrorResult("SERVER_ERROR")
    ELSE LET parsed == IF returnLoads THEN reply ELSE Without(reply, "loads")
         IN  [f \in DOMAIN parsed \cup {"analyzedRows"} |->
                 IF f = "analyzedRows" THEN Len(sampleData)
                 ELSE IF f = "issues" THEN GroupAndSuggest(parsed.issues)
                 ELSE parsed[f]]

\* analyzeActiveSheet(opts), given the replies to its first and its second request
analyzeActiveSheet(hs, data, opts, reply, loadsReply) ==
    IF data = <<>> THEN ErrorResult("NO_DATA")
    ELSE LET called  == callOpenAI(hs, data, opts.headerOverrides, TRUE, reply)
             grouped == [called EXCEPT !.issues = GroupAndSuggest(@)]
         IN  IF opts.returnLoads
             THEN IF "loads" \notin DOMAIN grouped
                  THEN LET loadsResult ==
                               callOpenAI(hs, data, opts.headerOverrides, TRUE, loadsReply)
                       IN  IF "loads" \in DOMAIN loadsResult
                           THEN grouped @@ [loads |-> loadsResult.loads]
                           ELSE grouped
                  ELSE grouped
             ELSE Without(grouped, "loads")

\* sheet.getRange(row, col).setValue(v) on the data rows: a write below the last
\* row extends the sheet with empty rows
setValue(hs, data, row, col, v) ==
    LET blank  == [c \in 1..Len(hs) |-> ""]
        larger == [r \in 1..(IF row - 1 > Len(data) THEN row - 1 ELSE Len(data)) |->
                      IF r <= Len(data) THEN data[r] ELSE blank]
    IN  [larger EXCEPT ![row - 1][col] = v]

\* applyFix: parsed.fixes.forEach, both branches of which write fix.newValue to
\* row fix.row + 2 of the column named fix.column when the sheet has that column
RECURSIVE FixesApplied(_, _, _)
FixesApplied(hs, data, fixes) ==
    IF fixes = <<>> THEN data
    ELSE LET fix      == Head(fixes)
             colIndex == indexOf(hs, fix.column) + 1
         IN  FixesApplied(hs,
                          IF colIndex > 0
                          THEN setValue(hs, data, fix.row + 2, colIndex, fix.newValue)
                          ELSE data,
                          Tail(fixes))

(***************************************************************************)
(* SpecChat: commands sent to handleChatMessage, one after another, on a   *)
(* sheet with the alias headers.                                           *)
(***************************************************************************)
MaxChatRows == 2

ChatRowUniverse == { CleanRow("L1"), [CleanRow("L3") EXCEPT ![3] = "Invalid Date"] }

ChatSheets == UNION {[1..n -> ChatRowUniverse] : n \in 0..MaxChatRows}

RepliedMapping == [f \in Range(requiredFields) |-> AliasHeaders[indexOf(requiredFields, f) + 1]]

RepliedLoads == << [loadId |-> "L1", status |-> "Pending"] >>

\* the replies to an analysis request
AnalysisReplies ==
    { NoReply,
      [ok |-> TRUE, issues |-> <<>>, mapping |-> RepliedMapping, loads |-> RepliedLoads],
      [ok |-> TRUE, issues |-> << Issue("NON_ISO_DATE", "warn", "PU Time", <<2>>) >>,
       mapping |-> RepliedMapping],
      [ok |-> FALSE,
       issues |-> << Issue("INVALID_DATE", "error", "PU Time", <<2>>),
                     Issue("INVALID_DATE", "error", "PU Time", <<3>>) >>,
       mapping |-> RepliedMapping],
      [ok |-> FALSE, issues |-> << Issue("DUPLICATE_ID", "error", "Load ID", <<2, 3>>) >>,
       mapping |-> RepliedMapping, loads |-> <<>>] }

\* the replies to a fix request
FixReplies ==
    { NoReply,
      [fixes |-> <<>>, summary |-> "Nothing to fix."],
      [fixes |-> << [row |-> 0, column |-> "PU Time",
                     newValue |-> "2025-09-10T14:00:00Z"] >>,
       summary |-> "Normalized the pickup time."],
      [fixes |-> << [row |-> 1, column |-> "Status", newValue |-> "Completed"],
                    [row |-> 0, column |-> "Pickup", newValue |-> "A St"] >>,
       summary |-> "Normalized the status."] }

\* the header overrides a user confirms
MappingPayloads == { <<>>, [loadId |-> "Ref"] }

InitChat ==
    /\ NoSession
    /\ headers = AliasHeaders
    /\ rows \in ChatSheets
    /\ tz = 0
    /\ op = [name |-> "input", input |-> <<>>]
    /\ result = <<>>

\* an analyze_sheet that writes the first pickup time of the sheet in ISO form
AnalyzeSheetCommand_Writing ==
    \E reply \in AnalysisReplies :
        /\ op' = [name |-> "analyze_sheet", input |-> <<>>]
        /\ result' = analyzeActiveSheet(headers, rows,
                         [headerOverrides |-> <<>>, returnLoads |-> FALSE], reply, reply)
        /\ rows' = IF rows = <<>> THEN rows
                   ELSE setValue(headers, rows, 2, 3, "2025-09-10T09:00:00Z")
        /\ UNCHANGED <<headers, tz, session>>

\* handleChatMessage({command: "analyze_sheet"})
AnalyzeSheetCommand ==
    \E reply \in AnalysisReplies :
        /\ op' = [name |-> "analyze_sheet", input |-> <<>>]
        /\ result' = analyzeActiveSheet(headers, rows,
                         [headerOverrides |-> <<>>, returnLoads |-> FALSE], reply, reply)
        /\ UNCHANGED <<headers, rows, tz, session>>

\* handleChatMessage({command: "apply_mapping", mapping})
ApplyMappingCommand ==
    \E mapping \in MappingPayloads, reply \in AnalysisReplies, loadsReply \in AnalysisReplies :
        /\ op' = [name |-> "apply_mapping", input |-> mapping]
        /\ result' = analyzeActiveSheet(headers, rows,
                         [headerOverrides |-> mapping, returnLoads |-> TRUE],
                         reply, loadsReply)
        /\ UNCHANGED <<headers, rows, tz, session>>

\* handleChatMessage({command: "apply_fix", issue}): applyFix reads the data rows
\* (which throws on a sheet without any), asks for fixes (a failure throws), writes
\* them, and analyses the sheet again; what it throws becomes the ERROR result
ApplyFixCommand ==
    \E fixReply \in FixReplies, reply \in AnalysisReplies, loadsReply \in AnalysisReplies :
        /\ op' = [name |-> "apply_fix", input |-> <<>>]
        /\ IF rows = <<>> \/ fixReply = NoReply
           THEN /\ result' = ErrorResult("ERROR")
                /\ rows' = rows
           ELSE /\ rows' = FixesApplied(headers, rows, fixReply.fixes)
                /\ result' = analyzeActiveSheet(headers, rows',
                                 [headerOverrides |-> <<>>, returnLoads |-> TRUE],
                                 reply, loadsReply)
                               @@ [aiSummary |-> fixReply.summary, fixedLoadJson |-> TRUE]
        /\ UNCHANGED <<headers, tz, session>>

\* handleChatMessage with any other command: runChatAI(payload.message)
ChatCommand ==
    \E text \in {"Hello!", "Error contacting AI: timeout"} :
        /\ op' = [name |-> "chat", input |-> <<>>]
        /\ result' = [text |-> text]
        /\ UNCHANGED <<headers, rows, tz, session>>

NextChat == AnalyzeSheetCommand \/ ApplyMappingCommand \/ ApplyFixCommand \/ ChatCommand

SpecChat == InitChat /\ [][NextChat]_vars

\* C2: a returned result carries a populated loads array only when its ok flag is
\* true, for every command that returns a result (analyze_sheet, apply_mapping and
\* the re-analysis after apply_fix).
C2_LoadsOnlyWhenOk ==
    op.name \in {"analyze_sheet", "apply_mapping", "apply_fix"} /\ ~result.ok =>
        ~("loads" \in DOMAIN result /\ result.loads # <<>>)

\* apply_mapping has returned the result of a failed first request together with
\* the loads of a second request that succeeded
C2_Witness ==
    /\ op.name = "apply_mapping"
    /\ ~result.ok /\ result.issues[1].code = "SERVER_ERROR"
    /\ "loads" \in DOMAIN result /\ result.loads = RepliedLoads

(***************************************************************************)
(* What the statements about missing columns and row counts speak of.      *)
(***************************************************************************)
\* a run that mapped the headers itself has returned its result
HeadersMapped ==
    /\ Returned /\ "mapping" \in DOMAIN result
    /\ op.name = "validateSheet007" => op.input = <<>>

\* the required fields the header mapping of the run left unbound
UnmappedRequired == {f \in Range(requiredFields) : f \notin DOMAIN result.mapping}

\* the positions of the MISSING_COLUMN issues of the result
MissingColumnIssues ==
    {k \in 1..Len(result.issues) : result.issues[k].code = "MISSING_COLUMN"}

\* C11: header mapping emits exactly one MISSING_COLUMN error issue for each
\* required field that no header matches, and no other MISSING_COLUMN issue: none
\* for an unmatched optional field, none for a header that matches no field.
C11_OneMissingColumnPerField ==
    HeadersMapped =>
        /\ Cardinality(MissingColumnIssues) = Cardinality(UnmappedRequired)
        /\ \A k \in MissingColumnIssues : result.issues[k].severity = "error"
        /\ op.name = "validateSheet" =>
              \A f \in UnmappedRequired :
                  Cardinality({k \in MissingColumnIssues : result.issues[k].column = f}) = 1

\* analyzeSheet has found two required fields without a header and has reported
\* one MISSING_COLUMN issue for both
C11_Witness ==
    /\ op.name = "analyzeSheet" /\ HeadersMapped
    /\ UnmappedRequired = {"driverName", "broker"}
    /\ "driverPhone" \in DOMAIN result.mapping
    /\ Cardinality(MissingColumnIssues) = 1

\* C12: meta.analyzedRows of every returned result equals the number of data rows
\* the run was given, also when the run ends early on a missing required column.
C12_AnalyzedRowsIsRowCount ==
    Returned => "analyzedRows" \in DOMAIN result /\ result.analyzedRows = Len(rows)

\* validateSheet has ended early on missing columns and has counted no row of a
\* sheet with two data rows
C12_Witness ==
    /\ op.name = "validateSheet" /\ HeadersMapped
    /\ UnmappedRequired # {} /\ Len(rows) = 2
    /\ result.analyzedRows = 0

\* C13: when the header mapping leaves a required column unmapped, the run does no
\* row-level analysis: the returned issues are MISSING_COLUMN errors and nothing
\* else, ok is false and no loads are returned.
C13_MissingColumnBlocksRows ==
    HeadersMapped /\ op.name \in {"validateSheet", "analyzeSheet"} /\ UnmappedRequired # {} =>
        /\ MissingColumnIssues = 1..Len(result.issues) /\ result.issues # <<>>
        /\ \A k \in 1..Len(result.issues) : result.issues[k].severity = "error"
        /\ ~result.ok
        /\ "loads" \in DOMAIN result => result.loads = <<>>

\* a sheet without a broker column, with rows that have an empty loadId and an
\* unparsable date, has been analysed
C13_Witness ==
    /\ op.name \in {"validateSheet", "analyzeSheet"} /\ HeadersMapped
    /\ "broker" \in UnmappedRequired
    /\ rows = << CleanRow(""), [CleanRow("L3") EXCEPT ![3] = "Invalid Date"], CleanRow("") >>
    /\ ~result.ok

\* C14: an analysis request never propagates an exception: for a sheet with no data
\* rows it returns a result with ok false and exactly one synthesized issue, of
\* severity error and code NO_DATA or INTERNAL_ERROR.
C14_NoDataIsAResult ==
    op.name \in {"validateSheet", "validateSheet007", "analyzeSheet"} /\ rows = <<>> =>
        /\ "ok" \in DOMAIN result /\ ~result.ok
        /\ Len(result.issues) = 1
        /\ result.issues[1].severity = "error"
        /\ result.issues[1].code \in {"NO_DATA", "INTERNAL_ERROR"}

\* validateSheet has been given a sheet with a complete header row and no data
\* row, and has thrown
C14_Witness ==
    /\ op.name = "validateSheet" /\ headers = AliasHeaders /\ rows = <<>>
    /\ result = RangeError

(***************************************************************************)
(* What the statements about the chat commands speak of.                   *)
(***************************************************************************)
\* C15: a step that runs analysis alone (analyze_sheet, or apply_mapping with its
\* re-analysis) leaves the header row and every data cell of the sheet as they
\* were; the cells change only in a step of the apply_fix command.
C15_OnlyApplyFixWrites ==
    [][ /\ op'.name \in {"analyze_sheet", "apply_mapping"} => rows' = rows /\ headers' = headers
        /\ (rows' # rows \/ headers' # headers) => op'.name = "apply_fix" ]_vars

\* apply_mapping has re-analysed a sheet with data rows and returned loads
C15_Witness ==
    /\ op.name = "apply_mapping" /\ rows # <<>>
    /\ result.ok /\ "loads" \in DOMAIN result /\ result.loads # <<>>

(***************************************************************************)
(* What the statements about cells and their issues speak of.              *)
(***************************************************************************)
\* the 0-based index of the column the result's mapping binds field f to
ColumnIndexOf(f) ==
    IF op.name = "analyzeSheet" THEN result.mapping[f]
    ELSE indexOf(headers, result.mapping[f])

\* the header of that column, and the cell of data row r in it
HeaderOf(f) == headers[ColumnIndexOf(f) + 1]
CellOf(r, f) == rows[r][ColumnIndexOf(f) + 1]

\* C16: for every required field and every data row, an empty cell in the field's
\* column produces an error-severity issue that names the row (its sheet row
\* number) and the column (by its header or by the field).
C16_EmptyRequiredCellIsError ==
    RowsAnalysed /\ op.name \in {"validateSheet", "analyzeSheet"} =>
        \A r \in 1..Len(rows) : \A f \in Range(requiredFields) :
            CellOf(r, f) = "" =>
                \E k \in 1..Len(result.issues) :
                    /\ result.issues[k].severity = "error"
                    /\ (r + 1) \in Range(result.issues[k].rows)
                    /\ result.issues[k].column \in {f, HeaderOf(f)}

\* validateSheet has analysed one row whose broker cell is empty and has reported
\* nothing
C16_Witness ==
    /\ op.name = "validateSheet" /\ RowsAnalysed
    /\ Len(rows) = 1 /\ CellOf(1, "broker") = ""
    /\ result.ok /\ result.issues = <<>>

\* C17: with all required columns mapped, a single data row whose pickup date cell
\* is the unparsable text "Invalid Date" and whose other cells are valid yields ok
\* false, exactly one BAD_DATE_FORMAT issue, of severity error, for that row and
\* the pickup date column, no other issue, and no loads.
C17_InvalidDateScenario ==
    /\ RowsAnalysed /\ op.name \in {"validateSheet", "analyzeSheet"}
    /\ rows = << [CleanRow("L3") EXCEPT ![3] = "Invalid Date"] >>
    => /\ ~result.ok
       /\ Len(result.issues) = 1
       /\ result.issues[1].code = "BAD_DATE_FORMAT"
       /\ result.issues[1].severity = "error"
       /\ result.issues[1].rows = <<2>>
       /\ result.issues[1].column
              \in {"fromAppointmentDateTimeUTC", HeaderOf("fromAppointmentDateTimeUTC")}
       /\ "loads" \in DOMAIN result => result.loads = <<>>

\* validateSheet has analysed the row and has reported the date under the code
\* INVALID_DATE
C17_Witness ==
    /\ op.name = "validateSheet" /\ RowsAnalysed
    /\ rows = << [CleanRow("L3") EXCEPT ![3] = "Invalid Date"] >>
    /\ ~result.ok /\ Len(result.issues) = 1
    /\ result.issues[1].code = "INVALID_DATE" /\ result.issues[1].rows = <<2>>
    /\ result.issues[1].column = "PU Time"

\* C18: the mapping of a returned result is a header->field record: every key is
\* an original header of the analysed header row and every value is a canonical
\* field name.  (The values of analyzeSheet's mapping are numbers, not names.)
C18_MappingHeaderToField ==
    Returned /\ "mapping" \in DOMAIN result =>
        \A key \in DOMAIN result.mapping :
            /\ key \in Range(headers)
            /\ op.name # "analyzeSheet"
            /\ result.mapping[key] \in DOMAIN synonyms

\* validateSheet has returned a mapping whose key loadId is a field and whose value
\* "Load ID" is the header
C18_Witness ==
    /\ op.name = "validateSheet" /\ RowsAnalysed /\ headers = AliasHeaders
    /\ DOMAIN result.mapping = Range(requiredFields)
    /\ result.mapping["loadId"] = "Load ID"
    /\ "loadId" \notin Range(headers) /\ "Load ID" \notin DOMAIN synonyms

\* what selectSheetCell throws to its caller
CouldNotSelect == [threw |-> "Could not select the cell."]

\* api.gs selectSheetCell(colName, rowNum) on the sheet with header row hs: the
\* cell it activates, as sheet row and 1-based sheet column
selectSheetCell(hs, colName, rowNum) ==
    LET colIndex == indexOf(hs, colName)
    IN  IF colIndex # -1 THEN [row |-> rowNum, column |-> colIndex + 1]
        ELSE CouldNotSelect

\* the sheet columns (1-based) that the mapping of the result binds a field to
BoundColumns == {ColumnIndexOf(f) + 1 : f \in DOMAIN result.mapping}

\* C19: every row-level issue (an issue about rows of the sheet) carries a column
\* equal to an original header and the sheet row numbers of data rows, so that
\* selectSheetCell(issue.column, row) resolves to a cell of a mapped column in
\* that row.
C19_IssueResolvesToCell ==
    RowsAnalysed /\ op.name \in {"validateSheet", "analyzeSheet"} =>
        \A k \in 1..Len(result.issues) :
            LET issue == result.issues[k]
            IN  /\ issue.column \in Range(headers) \/ issue.rows = <<>>
                /\ \A row \in Range(issue.rows) :
                      /\ row \in 2..(Len(rows) + 1)
                      /\ selectSheetCell(headers, issue.column, row) # CouldNotSelect
                      /\ selectSheetCell(headers, issue.column, row).row = row
                      /\ selectSheetCell(headers, issue.column, row).column \in BoundColumns

\* validateSheet has reported the empty loadId of sheet row 2 without a column, and
\* selectSheetCell cannot select a cell for the issue
C19_Witness ==
    /\ op.name = "validateSheet" /\ RowsAnalysed
    /\ \E k \in 1..Len(result.issues) :
          /\ result.issues[k].code = "MISSING_ID" /\ result.issues[k].rows = <<2>>
          /\ result.issues[k].column = Undefined
          /\ selectSheetCell(headers, result.issues[k].column, 2) = CouldNotSelect

(***************************************************************************)
(* What the statements about the actions of grouped issues speak of.       *)
(***************************************************************************)
\* C20: after grouping (part_000, part_009), every issue whose code is in the
\* fixable set carries an action whose command is the fix of that code, whose
\* column equals the issue's column and whose rows equal the issue's merged rows.
C20_FixableCarriesAction ==
    op.name \in {"groupIssues000", "groupIssues009"} =>
        \A i \in 1..Len(result) :
            result[i].code \in FIXABLE_ISSUES =>
                /\ result[i].action # NoAction
                /\ result[i].action.command = FixCommand(result[i].code)
                /\ result[i].action.column = result[i].column
                /\ result[i].action.rows = result[i].rows

\* two fixable issues of one column have been merged into one issue with an action
C20_Witness ==
    /\ op.name \in {"groupIssues000", "groupIssues009"}
    /\ \E i \in 1..Len(result) :
          /\ result[i].code = "INVALID_DATE_FORMAT" /\ result[i].column = "PU Time"
          /\ result[i].rows = <<2, 2, 2>>
          /\ result[i].action.rows = <<2, 2, 2>>

(***************************************************************************)
(* Empty cells.  getValues() hands the analysers a string, a number, or    *)
(* (for a column the row does not have) undefined; the tests are applied   *)
(* to JavaScript values as normalizeDateTime's are.                        *)
(***************************************************************************)
\* Number.prototype.toString and String.prototype.toString, for 0..99
toString(v) ==
    IF v.t = "string" THEN v.s
    ELSE IF v.n < 10 THEN <<Digits[v.n + 1]>> ELSE TwoDigits(v.n)

\* Code.gs isEmptyCell(value)
isEmptyCell(value) ==
    IF value.t \in {"null", "undefined"} THEN TRUE
    ELSE trim(toString(value)) = <<>>

\* analyzeSheet: !cellValue || cellValue.toString().trim() === ''
EmptyInAnalyzeSheet(cellValue) ==
    Falsy(cellValue) \/ trim(toString(cellValue)) = <<>>

\* validateSheet: load[field] = row[colIdx] || null, then !load.loadId, !dateVal
EmptyInValidateSheet(cellValue) ==
    LET loaded == IF Falsy(cellValue) THEN JsNull ELSE cellValue
    IN  Falsy(loaded)

(***************************************************************************)
(* SpecCell: the empty tests applied to cell values.                       *)
(***************************************************************************)
MaxCellLen == 3

CellChars == {" ", "a", "0"}

CellValues ==
    {JsStr(cs) : cs \in UNION {[1..n -> CellChars] : n \in 0..MaxCellLen}}
        \cup {JsNull, JsUndefined} \cup {JsNum(k) : k \in 0..MaxCellLen}

InitCell ==
    /\ NoSession
    /\ NoSheet
    /\ tz = 0
    /\ op \in {[name |-> "input", input |-> v] : v \in CellValues}
    /\ result = JsUndefined

CellTested(name, absent) ==
    /\ op.name = "input"
    /\ op' = [name |-> name, input |-> op.input]
    /\ result' = [absent |-> absent]
    /\ UNCHANGED <<headers, rows, tz, session>>

IsEmptyCell       == CellTested("isEmptyCell", isEmptyCell(op.input))
AnalyzeSheetCell  == CellTested("analyzeSheet", EmptyInAnalyzeSheet(op.input))
ValidateSheetCell == CellTested("validateSheet", EmptyInValidateSheet(op.input))

NextCell == IsEmptyCell \/ AnalyzeSheetCell \/ ValidateSheetCell

SpecCell == InitCell /\ [][NextCell]_vars

\* the value is null, undefined, the empty string or a whitespace-only string
NothingWritten(v) ==
    \/ v.t \in {"null", "undefined"}
    \/ v.t = "string" /\ \A i \in 1..Len(v.s) : v.s[i] = " "

\* C21: the empty test each analyser applies to a cell agrees with isEmptyCell on
\* every cell value: the cell is absent if and only if it is null, undefined, the
\* empty string or a whitespace-only string.
C21_EmptyTestsAgree ==
    op.name \in {"isEmptyCell", "analyzeSheet", "validateSheet"} =>
        /\ result.absent = isEmptyCell(op.input)
        /\ result.absent <=> NothingWritten(op.input)

\* validateSheet has taken a cell of three spaces as present
C21_Witness ==
    /\ op.name = "validateSheet" /\ op.input = JsStr(<<" ", " ", " ">>)
    /\ ~result.absent /\ isEmptyCell(op.input)

(***************************************************************************)
(* What the statements about the choice among matching headers speak of.   *)
(***************************************************************************)
\* header h matches alias k of the list, as the mapper of the step compares them
MatchesAlias(h, aliases, k) ==
    IF op.name = "mapHeadersCode" THEN toLowerCaseOf[h] = toLowerCaseOf[aliases[k]]
    ELSE toLowerCaseTrimOf[h] = toLowerCaseOf[aliases[k]]

\* the positions of the aliases that some header of the row matches
MatchedAliases(aliases) ==
    {k \in 1..Len(aliases) : \E i \in 1..Len(headers) : MatchesAlias(headers[i], aliases, k)}

\* the least element of a non-empty set of numbers
Least(S) == CHOOSE k \in S : \A j \in S : k <= j

\* C22: when headers of the row match aliases of a field, the mapper binds the
\* field to a header that matches the alias declared earliest in the field's alias
\* list among the matched ones, whatever the order of the headers in the row.
C22_EarliestAliasWins ==
    /\ op.name = "mapHeaders" =>
          \A f \in DOMAIN synonyms :
              MatchedAliases(synonyms[f]) # {} =>
                  /\ f \in DOMAIN result.mapping
                  /\ MatchesAlias(result.mapping[f], synonyms[f],
                                  Least(MatchedAliases(synonyms[f])))
    /\ op.name = "mapHeadersCode" =>
          \A f \in DOMAIN HEADER_MAPPINGS :
              MatchedAliases(HEADER_MAPPINGS[f]) # {} =>
                  /\ f \in DOMAIN result.map
                  /\ MatchesAlias(headers[result.map[f] + 1], HEADER_MAPPINGS[f],
                                  Least(MatchedAliases(HEADER_MAPPINGS[f])))

\* api.gs mapHeaders has mapped the row ["Ref", "Load ID"] and has bound loadId to
\* "Ref", the later alias
C22_Witness ==
    /\ op.name = "mapHeaders" /\ headers = <<"Ref", "Load ID">>
    /\ MatchedAliases(synonyms["loadId"]) = {1, 2}
    /\ result.mapping["loadId"] = "Ref"

(***************************************************************************)
(* What the statements about warnings speak of.                            *)
(***************************************************************************)
\* the cell of date field f in data row r parses but is not in strict ISO form
NonIsoDate(r, f) ==
    /\ CellOf(r, f) # "" /\ newDateOf[CellOf(r, f), tz].valid
    /\ ~IsISO(Chars(CellOf(r, f)))

\* issue k of the result is a warning about a date that is not in ISO form
NonIsoWarning(k) ==
    /\ result.issues[k].severity = "warn"
    /\ result.issues[k].code \in {"NON_ISO_DATE", "NON_ISO_OUTPUT"}

\* C23: a date cell that parses but is not in strict ISO form produces a warning
\* for its row and column and no error; a run whose only issues are such warnings
\* returns ok true with the loads, each such date in them as the ISO-8601 UTC text
\* of the parsed instant.
C23_NonIsoDateOnlyWarns ==
    RowsAnalysed /\ op.name \in {"validateSheet", "analyzeSheet"} =>
        \A r \in 1..Len(rows) : \A f \in Range(DateFields) :
            NonIsoDate(r, f) =>
                /\ \E k \in 1..Len(result.issues) :
                      /\ NonIsoWarning(k)
                      /\ (r + 1) \in Range(result.issues[k].rows)
                      /\ result.issues[k].column \in {f, HeaderOf(f)}
                /\ (\A k \in 1..Len(result.issues) : NonIsoWarning(k)) =>
                      /\ result.ok
                      /\ "loads" \in DOMAIN result /\ Len(result.loads) = Len(rows)
                      /\ result.loads[r][f] =
                             Str(toISOString(newDateOf[CellOf(r, f), tz]))

\* analyzeSheet has analysed one row whose pickup time is "2025-09-10 14:00:00",
\* has raised the one warning and has returned ok false and no loads
C23_Witness ==
    /\ op.name = "analyzeSheet" /\ RowsAnalysed
    /\ Len(rows) = 1 /\ NonIsoDate(1, "fromAppointmentDateTimeUTC")
    /\ Len(result.issues) = 1 /\ NonIsoWarning(1)
    /\ ~result.ok /\ result.loads = <<>>

\* issue k of the result is about the status vocabulary
StatusIssue(k) == result.issues[k].code \in {"INVALID_STATUS", "INCONSISTENT_STATUS"}

\* the status cell of data row r is not empty and not in the allow-list
StatusNotAllowed(r) ==
    CellOf(r, "status") # "" /\ CellOf(r, "status") \notin Range(allowedStatuses)

\* C24: every data row whose non-empty status is outside the allow-list produces a
\* status issue of severity warn for that row, no status issue is ever an error,
\* and a sheet whose status values are all in the allow-list produces no status
\* issue.
C24_StatusOutsideAllowListWarns ==
    RowsAnalysed /\ op.name \in {"validateSheet", "analyzeSheet"} =>
        /\ \A k \in 1..Len(result.issues) : StatusIssue(k) => result.issues[k].severity = "warn"
        /\ \A r \in 1..Len(rows) :
              StatusNotAllowed(r) =>
                  \E k \in 1..Len(result.issues) :
                      StatusIssue(k) /\ (r + 1) \in Range(result.issues[k].rows)
        /\ (\A r \in 1..Len(rows) : ~StatusNotAllowed(r)) =>
              \A k \in 1..Len(result.issues) : ~StatusIssue(k)

\* analyzeSheet has analysed one row whose status is "Delivered" and has reported
\* nothing
C24_Witness ==
    /\ op.name = "analyzeSheet" /\ RowsAnalysed
    /\ Len(rows) = 1 /\ CellOf(1, "status") = "Delivered" /\ StatusNotAllowed(1)
    /\ result.ok /\ result.issues = <<>>

(***************************************************************************)
(* What the statement about timezone evidence speaks of.                   *)
(***************************************************************************)
\* normalizeDateTime has just been applied to a text that parses and shows a zone
ParsedWithZone ==
    /\ op.name = "normalizeDateTime"
    /\ op.input.t = "string"
    /\ NewDate(op.input, tz).valid
    /\ TzEvidence(op.input.s)

\* C25: a literal Z, a numeric UTC offset of either sign and a known zone
\* abbreviation all count as timezone evidence: for a text with such evidence
\* normalizeDateTime returns the parsed instant itself, without the assumed-zone
\* adjustment.
C25_EvidenceMeansNoAdjustment ==
    ParsedWithZone =>
        /\ result.t = "string"
        /\ InstantOf(result) = DateAt(NewDate(op.input, tz).t)

\* a text with the offset -05:00 has been normalised and moved four hours
C25_Witness ==
    /\ ParsedWithZone
    /\ op.input.s = DayText(10) \o <<"T">> \o ClockText(14) \o <<"-","0","5",":","0","0">>
    /\ InstantOf(result) = DateAt(NewDate(op.input, tz).t + 4 * 3600)


(***************************************************************************)
(* applyFix (part_000 and part_009, the same code): the fix of an action   *)
(* that groupIssues attached to an issue, applied to the active sheet.     *)
(***************************************************************************)
\* a cell that holds a Date and not a string: the instant it holds
DateCell(d) == "Date:" \o Str(toISOString(d))

\* the Date cells a sheet of the modelled texts can hold under the script time zone
DateCells(zone) ==
    {DateCell(newDateOf[s, zone]) : s \in {"2025-09-10 14:00:00", "2025-09-10T14:00:00Z"}}

\* sheet.getRange(row, col).getValue(): row 1 is the header row, a cell below
\* the last row is empty
getValue(hs, data, row, col) ==
    IF row = 1 THEN hs[col]
    ELSE IF row - 1 <= Len(data) THEN data[row - 1][col]
    ELSE ""

\* cell.setValue(v) on any row of the sheet, the header row included
cellSetValue(hs, data, row, col, v) ==
    IF row = 1 THEN [headers |-> [hs EXCEPT ![col] = v], rows |-> data]
    ELSE [headers |-> hs, rows |-> setValue(hs, data, row, col, v)]

\* the cases of applyFix's switch
FixCommands == {"fix_invalid_date_format", "fix_missing_required_field"}

\* the body of one case's action.rows.forEach(row => ...) for one row: the
\* cell is written when the case's test of its value passes
FixedCell(command, value, zone) ==
    IF command = "fix_invalid_date_format"
    THEN IF value \notin DateCells(zone) /\ newDateOf[value, zone] # NaN
         THEN <<DateCell(newDateOf[value, zone])>>
         ELSE <<>>
    ELSE IF ~Truthy(value) THEN <<"N/A">> ELSE <<>>

\* action.rows.forEach of a case: getRange throws for a row below 1, which
\* ends the loop with the rows before it already written
RECURSIVE FixRows(_, _, _, _, _, _)
FixRows(hs, data, command, col, rws, zone) ==
    IF rws = <<>> THEN [threw |-> FALSE, headers |-> hs, rows |-> data]
    ELSE IF Head(rws) < 1 THEN [threw |-> TRUE, headers |-> hs, rows |-> data]
    ELSE LET row   == Head(rws)
             fixed == FixedCell(command, getValue(hs, data, row, col), zone)
             after == IF fixed = <<>> THEN [headers |-> hs, rows |-> data]
                      ELSE cellSetValue(hs, data, row, col, fixed[1])
         IN  FixRows(after.headers, after.rows, command, col, Tail(rws), zone)

\* applyFix that takes every command for the missing-required-field case
applyFix_AnyCommand(hs, data, action, zone) ==
    LET colIndex == indexOf(hs, action.column)
    IN  IF colIndex = -1 THEN [returned |-> FALSE, headers |-> hs, rows |-> data]
        ELSE LET f == FixRows(hs, data, action.command, colIndex + 1, action.rows, zone)
             IN  [returned |-> ~f.threw, headers |-> f.headers, rows |-> f.rows]

\* applyFix(action): what it returns and the sheet it leaves
applyFix(hs, data, action, zone) ==
    LET colIndex == indexOf(hs, action.column)
    IN  IF colIndex = -1 THEN [returned |-> FALSE, headers |-> hs, rows |-> data]
        ELSE IF action.command \in FixCommands
        THEN LET f == FixRows(hs, data, action.command, colIndex + 1, action.rows, zone)
             IN  [returned |-> ~f.threw, headers |-> f.headers, rows |-> f.rows]
        ELSE [returned |-> FALSE, headers |-> hs, rows |-> data]

(***************************************************************************)
(* SpecFix: the issues of an analysis are grouped, and one of the actions  *)
(* attached by the grouping is sent back and applied.                      *)
(***************************************************************************)
MaxFixRows == 2
MaxFixIssues == 2

FixHeaders == <<"Load ID", "PU Time", "Broker">>

FixRowUniverse ==
    { <<"L1", "2025-09-10 14:00:00", "Acme">>,
      <<"L2", "Invalid Date", "">>,
      <<"L3", DateCell(newDateOf["2025-09-10 14:00:00", 0]), "Acme">> }

FixSheets == UNION {[1..n -> FixRowUniverse] : n \in 0..MaxFixRows}

\* issues as an analysis reports them; row numbers are sheet rows, and the
\* reply of the AI may name any row and any column
FixIssueUniverse ==
    { Issue("INVALID_DATE_FORMAT", "error", "PU Time", <<2>>),
      Issue("INVALID_DATE_FORMAT", "error", "PU Time", <<3, 1>>),
      Issue("INVALID_DATE_FORMAT", "warn", "PU Time", <<2, 0, 3>>),
      Issue("MISSING_REQUIRED_FIELD", "error", "Broker", <<2, 4>>),
      Issue("MISSING_REQUIRED_FIELD", "error", "DEL Time", <<2>>),
      Issue("MISSING_COLUMN", "error", "Broker", <<>>),
      Issue("DUPLICATE_ID", "error", "Load ID", <<2, 3>>) }

FixIssueLists == UNION {[1..n -> FixIssueUniverse] : n \in 0..MaxFixIssues}

InitFix ==
    /\ NoSession
    /\ headers = FixHeaders
    /\ rows \in FixSheets
    /\ tz = 0
    /\ op \in {[name |-> "input", input |-> x] : x \in FixIssueLists}
    /\ result = <<>>

\* sendDataForAnalysis returns groupIssues(result) to the sidebar
GroupedForFix(name, g) ==
    /\ op.name = "input"
    /\ op' = [name |-> name, input |-> op.input]
    /\ result' = g
    /\ UNCHANGED <<headers, rows, tz, session>>

GroupForFix000 == GroupedForFix("groupIssues000", groupIssues000(op.input))
GroupForFix009 == GroupedForFix("groupIssues009", groupIssues009(op.input))

\* handleChatMessage, command apply_fix: applyFix(payload.action) with an
\* action of the grouped issues
FixApplied(grouper, name) ==
    /\ op.name = grouper
    /\ \E i \in 1..Len(result) :
          /\ result[i].action # NoAction
          /\ LET fix == applyFix(headers, rows, result[i].action, tz)
             IN  /\ op' = [name |-> name, input |-> result[i].action,
                           headers |-> headers, rows |-> rows]
                 /\ result' = fix.returned
                 /\ headers' = fix.headers
                 /\ rows' = fix.rows
    /\ UNCHANGED <<tz, session>>

ApplyFix000 == FixApplied("groupIssues000", "applyFix000")
ApplyFix009 == FixApplied("groupIssues009", "applyFix009")

NextFix == GroupForFix000 \/ GroupForFix009 \/ ApplyFix000 \/ ApplyFix009

SpecFix == InitFix /\ [][NextFix]_vars

\* applyFix has run on op.input, on the sheet op.headers and op.rows
FixRan == op.name \in {"applyFix000", "applyFix009"}

\* the column of the applied action is a header of the sheet it was applied to
ColumnExists == indexOf(op.headers, op.input.column) # -1

\* C27: every command that groupIssues attaches to an issue is a case of
\* applyFix's switch, so an attached action whose column is a header of the
\* sheet is never answered with the false of an unsupported command
C27_AttachedCommandImplemented ==
    FixRan /\ ColumnExists => op.input.command \in FixCommands

\* groupIssues of part_009 attached fix_missing_column to a MISSING_COLUMN
\* issue whose column is the header "Broker"; applyFix has no such case and
\* returned false
C27_Witness ==
    /\ op.name = "applyFix009"
    /\ op.input.command = "fix_missing_column"
    /\ op.input.column = "Broker"
    /\ ColumnExists
    /\ result = FALSE

\* what the same claim says of part_000 alone, whose groupIssues attaches an
\* action to the two fixable codes only
C27_Part000Conforms ==
    op.name = "applyFix000" /\ ColumnExists => op.input.command \in FixCommands

\* the cells of the sheet that differ from the sheet applyFix was applied to
ModifiedCells ==
    {rc \in (1..(Len(rows) + 1)) \X (1..Len(headers)) :
        getValue(headers, rows, rc[1], rc[2]) # getValue(op.headers, op.rows, rc[1], rc[2])}

\* C28: applyFix modifies only cells of the column named by action.column in
\* the rows listed in action.rows, and when action.column is not a header or
\* the command is not a case of the switch it returns false with no cell
\* modified
C28_ApplyFixFrame ==
    FixRan =>
        LET colIndex == indexOf(op.headers, op.input.column)
        IN  /\ Len(headers) = Len(op.headers)
            /\ \A rc \in ModifiedCells :
                  rc[2] = colIndex + 1 /\ rc[1] \in Range(op.input.rows)
            /\ colIndex = -1 \/ op.input.command \notin FixCommands =>
                  result = FALSE /\ ModifiedCells = {}

\* applyFix turned the date text of row 2 into a Date and, for rows <<2, 0, 3>>,
\* returned false after the bad row with that cell already written
C28_Witness ==
    /\ FixRan
    /\ op.input.command = "fix_invalid_date_format"
    /\ 0 \in Range(op.input.rows)
    /\ ModifiedCells = {<<2, 2>>}
    /\ getValue(headers, rows, 2, 2) \in DateCells(tz)
    /\ result = FALSE

(***************************************************************************)
(* handleChatMessage of part_009, which keeps the user property chatState  *)
(* between commands.                                                       *)
(***************************************************************************)
\* {...a, ...b} with the properties of a kept over those of b
spread_FirstWins(a, b) ==
    [k \in DOMAIN a \cup DOMAIN b |-> IF k \in DOMAIN a THEN a[k] ELSE b[k]]

\* {...a, ...b}: the properties of both, those of b over those of a
spread(a, b) ==
    [k \in DOMAIN a \cup DOMAIN b |-> IF k \in DOMAIN b THEN b[k] ELSE a[k]]

\* JSON.parse(JSON.stringify(obj)) of an object of strings: a property whose
\* value is undefined is not written
jsonRoundTrip(obj) == [k \in {j \in DOMAIN obj : obj[j] # Undefined} |-> obj[k]]

\* JSON.parse(userProperties.getProperty('chatState') || '{}')
lastStateOf(property) == IF property = <<>> THEN <<>> ELSE property[1]

\* lastState.mapping spread into an object: nothing when it is undefined
mappingOf(lastState) == IF "mapping" \in DOMAIN lastState THEN lastState.mapping ELSE <<>>

\* the result sendDataForAnalysis makes up for a failure
ErrorResult009(code) == [ok |-> FALSE, issues |-> << [code |-> code, severity |-> "error"] >>]

\* sendDataForAnalysis(userMessage, existingMapping = {}), given what the proxy
\* answers: the request it sends and the result it returns.  lastState.mapping
\* is passed, and the default {} stands in when that is undefined
sendDataForAnalysis009(hs, data, lastState, reply) ==
    [request  |-> [headers |-> hs, rows |-> data, userMapping |-> mappingOf(lastState)],
     returned |-> IF reply.kind = "unreachable" THEN ErrorResult009("NETWORK_ERROR")
                  ELSE IF reply.kind = "http_error" THEN ErrorResult009("PROXY_ERROR")
                  ELSE IF reply.kind = "not_json" THEN ErrorResult009("INVALID_RESPONSE")
                  ELSE IF "error" \in DOMAIN reply.body THEN ErrorResult009("PROXY_ERROR")
                  ELSE IF "issues" \in DOMAIN reply.body
                       THEN [reply.body EXCEPT !.issues = groupIssues009(@)]
                  ELSE reply.body]

(***************************************************************************)
(* SpecState: commands sent to handleChatMessage of part_009, one after    *)
(* another; log records the payloads received.                             *)
(***************************************************************************)
MaxCommands == 3

\* the mappings of header to field that the sidebar sends
SentMappings ==
    { <<>>, [Ref |-> "loadId"], [Ref |-> "status"], [Ref |-> "status", Broker |-> "loadId"] }

SentActions ==
    { [command |-> "fix_missing_required_field", column |-> "Broker", rows |-> <<2>>],
      [command |-> "fix_missing_column", column |-> "Broker", rows |-> <<>>] }

ProxyReplies ==
    { [kind |-> "unreachable"], [kind |-> "http_error"], [kind |-> "not_json"],
      [kind |-> "json", body |-> [error |-> "No API key"]],
      [kind |-> "json",
       body |-> [ok |-> FALSE,
                 issues |-> << Issue("MISSING_REQUIRED_FIELD", "error", "Broker", <<2>>) >>]] }

InitState ==
    /\ chatState = <<>> /\ log = <<>> /\ cache = <<>> /\ inflight = {}
    /\ headers = FixHeaders
    /\ rows = << <<"L2", "Invalid Date", "">> >>
    /\ tz = 0
    /\ op = [name |-> "input", input |-> <<>>]
    /\ result = <<>>

\* handleChatMessage(payload) is called with the payload
Received(payload) ==
    /\ Len(log) < MaxCommands
    /\ log' = Append(log, payload)
    /\ UNCHANGED <<tz, cache, inflight>>

\* case 'analyze_sheet'
HandleAnalyzeSheet ==
    \E reply \in ProxyReplies :
        LET payload == [command |-> "analyze_sheet", mapping |-> <<>>]
            sent    == sendDataForAnalysis009(headers, rows, lastStateOf(chatState), reply)
        IN  /\ Received(payload)
            /\ chatState' = <<>>
            /\ op' = [name |-> "analyze_sheet", input |-> payload,
                      userMapping |-> sent.request.userMapping]
            /\ result' = sent.returned
            /\ UNCHANGED <<headers, rows>>

\* case 'apply_fix'
HandleApplyFix ==
    \E action \in SentActions :
        LET payload == [command |-> "apply_fix", mapping |-> <<>>]
            fix     == applyFix(headers, rows, action, tz)
        IN  /\ Received(payload)
            /\ chatState' = <<>>
            /\ op' = [name |-> "apply_fix", input |-> payload]
            /\ result' = fix.returned
            /\ headers' = fix.headers
            /\ rows' = fix.rows

\* case 'apply_mapping'
HandleApplyMapping ==
    \E newMapping \in SentMappings :
        LET payload   == [command |-> "apply_mapping", mapping |-> newMapping]
            lastState == lastStateOf(chatState)
            merged    == spread(lastState, [mapping |-> spread(mappingOf(lastState), newMapping)])
        IN  /\ Received(payload)
            /\ chatState' = << [merged EXCEPT !.mapping = jsonRoundTrip(@)] >>
            /\ op' = [name |-> "apply_mapping", input |-> payload]
            /\ result' = [message |-> "Mapping applied. Re-running analysis...",
                          success |-> TRUE]
            /\ UNCHANGED <<headers, rows>>

\* case 'general_chat': processGeneralChatWithAI answers with the reply of the
\* proxy or with its apology
HandleGeneralChat ==
    \E answer \in { [ok |-> TRUE, message |-> "Hello!"],
                    [ok |-> FALSE, message |-> "Sorry, I'm having trouble connecting to my brain. Please try again later."] } :
        LET payload == [command |-> "general_chat", mapping |-> <<>>]
        IN  /\ Received(payload)
            /\ op' = [name |-> "general_chat", input |-> payload]
            /\ result' = answer
            /\ UNCHANGED <<headers, rows, chatState>>

\* default: processGeneralChat picks one of its greetings at random
HandleOtherCommand ==
    \E greeting \in { "Hello! How can I assist you today?",
                      "Hi there! What can I do for you?",
                      "Hello! How can I assist you today with TruckTalk Connect?" } :
        LET payload == [command |-> "help", mapping |-> <<>>]
        IN  /\ Received(payload)
            /\ op' = [name |-> "help", input |-> payload]
            /\ result' = greeting
            /\ UNCHANGED <<headers, rows, chatState>>

NextState ==
    \/ HandleAnalyzeSheet \/ HandleApplyFix \/ HandleApplyMapping
    \/ HandleGeneralChat \/ HandleOtherCommand

SpecState == InitState /\ [][NextState]_vars

\* the position in the log of the most recent analyze_sheet or apply_fix, 0 if none
LastReset(l) ==
    LET at == {i \in 1..Len(l) : l[i].command \in {"analyze_sheet", "apply_fix"}}
    IN  IF at = {} THEN 0 ELSE CHOOSE i \in at : \A j \in at : j <= i

\* the positions of the apply_mapping commands received after that
MappedSince(l) == {i \in (LastReset(l) + 1)..Len(l) : l[i].command = "apply_mapping"}

\* their mappings merged: each header with the field of the latest mapping naming it
MergedSince(l) ==
    LET named == UNION {DOMAIN l[i].mapping : i \in MappedSince(l)}
    IN  [h \in named |->
            LET last == CHOOSE i \in MappedSince(l) :
                            /\ h \in DOMAIN l[i].mapping
                            /\ \A j \in MappedSince(l) : h \in DOMAIN l[j].mapping => j <= i
            IN  l[last].mapping[h]]

\* C26: the mapping an analyze_sheet command passes to the analysis is the merge
\* of the mappings of the apply_mapping commands received since the latest
\* analyze_sheet or apply_fix, a later one overriding an earlier one, and a
\* general-chat command leaves the saved state as it is
C26_PassedMappingIsMergeSinceReset ==
    [][ /\ op'.name = "analyze_sheet" => op'.userMapping = MergedSince(log)
        /\ op'.name \in {"general_chat", "help"} => chatState' = chatState ]_vars

\* an analyze_sheet passed Ref -> status after two apply_mapping commands, the
\* second of which overrode the field of Ref
C26_Witness ==
    /\ op.name = "analyze_sheet"
    /\ Len(log) = 3
    /\ log[1].command = "apply_mapping" /\ log[1].mapping = [Ref |-> "loadId"]
    /\ log[2].command = "apply_mapping" /\ log[2].mapping = [Ref |-> "status"]
    /\ op.userMapping = [Ref |-> "status"]

(***************************************************************************)
(* The caching proxy (part_001): the handler of POST /openai-proxy runs up *)
(* to its await of the upstream call, other requests are handled while it  *)
(* waits, and it resumes when the upstream answers.                        *)
(***************************************************************************)
\* `${model}:${userMessage}`
cacheKey(model, userMessage) == model \o ":" \o userMessage

\* cache.set(key, text)
cacheSet(map, key, text) == [k \in DOMAIN map \cup {key} |-> IF k = key THEN text ELSE map[k]]

(***************************************************************************)
(* SpecProxy: requests arrive at the proxy and the upstream answers them   *)
(* in any order; log records the upstream calls that were answered.        *)
(***************************************************************************)
MaxRequests == 3

\* the bodies of the requests; names of fine-tuned models contain colons
ProxyRequests ==
    { [model |-> "ft:gpt", userMessage |-> "hi", useCache |-> TRUE],
      [model |-> "ft:gpt", userMessage |-> "hi", useCache |-> FALSE],
      [model |-> "ft", userMessage |-> "gpt:hi", useCache |-> TRUE],
      [model |-> "ft", userMessage |-> "hi", useCache |-> TRUE] }

\* data.choices[0].message.content of an upstream answer
UpstreamContents == {" Yes ", "No"}

InitProxy ==
    /\ chatState = <<>> /\ cache = <<>> /\ inflight = {} /\ log = <<>>
    /\ NoSheet
    /\ tz = 0
    /\ op \in {[name |-> "input", input |-> [apiKey |-> k], arrived |-> 0] : k \in BOOLEAN}
    /\ result = <<>>

\* a request arrives and is answered before any await: from the cache, or
\* with status 500 when the API key is not configured
AnsweredAtOnce ==
    \E req \in ProxyRequests :
        LET key == cacheKey(req.model, req.userMessage)
        IN  /\ op.arrived < MaxRequests
            /\ (req.useCache /\ key \in DOMAIN cache) \/ ~op.input.apiKey
            /\ op' = [op EXCEPT !.name = "answered", !.arrived = @ + 1]
            /\ result' = IF req.useCache /\ key \in DOMAIN cache
                         THEN [status |-> 200, text |-> cache[key], fromCache |-> TRUE,
                               request |-> req]
                         ELSE [status |-> 500, request |-> req]
            /\ UNCHANGED <<headers, rows, tz, chatState, cache, inflight, log>>

\* a request arrives, misses the cache and awaits the upstream call
AwaitUpstream ==
    \E req \in ProxyRequests :
        LET key == cacheKey(req.model, req.userMessage)
        IN  /\ op.arrived < MaxRequests
            /\ ~(req.useCache /\ key \in DOMAIN cache)
            /\ op.input.apiKey
            /\ op' = [op EXCEPT !.name = "awaiting", !.arrived = @ + 1]
            /\ inflight' = inflight \cup {[id |-> op.arrived + 1, request |-> req]}
            /\ UNCHANGED <<headers, rows, tz, chatState, cache, log, result>>

\* the upstream answers a waiting request with a completion: the handler
\* caches the trimmed text under the request's key if it set useCache
UpstreamSucceeds ==
    \E call \in inflight, content \in UpstreamContents :
        LET req           == call.request
            generatedText == Str(trimOf[content])
        IN  /\ inflight' = inflight \ {call}
            /\ log' = Append(log, [model |-> req.model, userMessage |-> req.userMessage,
                                   text |-> generatedText])
            /\ cache' = IF req.useCache
                        THEN cacheSet(cache, cacheKey(req.model, req.userMessage), generatedText)
                        ELSE cache
            /\ op' = [op EXCEPT !.name = "answered"]
            /\ result' = [status |-> 200, text |-> generatedText, fromCache |-> FALSE,
                          request |-> req]
            /\ UNCHANGED <<headers, rows, tz, chatState>>

\* the upstream answers with an error status, or the call or the reading of
\* its body throws: the handler answers with that status or with 500
UpstreamFails ==
    \E call \in inflight, status \in {429, 500} :
        /\ inflight' = inflight \ {call}
        /\ op' = [op EXCEPT !.name = "failed"]
        /\ result' = [status |-> status, request |-> call.request]
        /\ UNCHANGED <<headers, rows, tz, chatState, cache, log>>

NextProxy == AnsweredAtOnce \/ AwaitUpstream \/ UpstreamSucceeds \/ UpstreamFails

SpecProxy == InitProxy /\ [][NextProxy]_vars

\* the last response was served from the cache
ServedFromCache == op.name = "answered" /\ result.status = 200 /\ result.fromCache

\* an earlier successful upstream call for the model and userMessage produced the text
ProducedFor(model, userMessage, text) ==
    \E i \in 1..Len(log) :
        log[i].model = model /\ log[i].userMessage = userMessage /\ log[i].text = text

\* C29: in any interleaving, a response marked fromCache: true goes to a
\* request that set useCache and carries the text of an earlier successful
\* upstream call for the same model and the same userMessage, and every cache
\* entry holds the text of a successful upstream call
C29_CacheServesOwnAnswers ==
    /\ ServedFromCache =>
          /\ result.request.useCache
          /\ ProducedFor(result.request.model, result.request.userMessage, result.text)
    /\ \A k \in DOMAIN cache : \E i \in 1..Len(log) : log[i].text = cache[k]

\* the request for model "ft" with the message "gpt:hi" was served, from the
\* cache, the text of the only upstream call, made for model "ft:gpt" with "hi"
C29_Witness ==
    /\ ServedFromCache
    /\ result.request.model = "ft" /\ result.request.userMessage = "gpt:hi"
    /\ Len(log) = 1
    /\ log[1].model = "ft:gpt" /\ log[1].userMessage = "hi"
    /\ result.text = log[1].text

\* the parts of the claim that the key does not affect
C29_OnlyWithUseCacheAndFromSuccess ==
    /\ ServedFromCache => result.request.useCache
    /\ \A k \in DOMAIN cache : \E i \in 1..Len(log) : log[i].text = cache[k]

\* C30: grouping never collapses two issues that differ in code or in column:
\* each of them is found in an output entry of its own pair, whatever
\* characters the code and the column contain
C30_DistinctPairsNeverMerged ==
    op.name \in GroupingOps =>
        \A i, j \in 1..Len(op.input) :
            PairOf(op.input[i]) # PairOf(op.input[j]) =>
                \E a, b \in 1..Len(result) :
                    /\ a # b
                    /\ PairOf(result[a]) = PairOf(op.input[i])
                    /\ PairOf(result[b]) = PairOf(op.input[j])

\* groupIssues of part_009 returned one entry for the issues NON_ISO of column
\* DATE-TIME and NON_ISO-DATE of column TIME, with the rows of both
C30_Witness ==
    /\ op.name = "groupIssues009"
    /\ op.input = << Issue("NON_ISO", "warn", "DATE-TIME", <<2>>),
                     Issue("NON_ISO-DATE", "warn", "TIME", <<3>>) >>
    /\ Len(result) = 1
    /\ result[1].rows = <<2, 3>>
=============================================================================
